---- MODULE Spec2Model ----
(***************************************************************************)
(* Verification model of the portage remap engine:                         *)
(*   - UberDriver (portage/driver/uberdriver.h): the per-kind completion   *)
(*     flags, the cached weights and the routing of interpolate calls;     *)
(*   - intersect_polys_r2d (portage/intersect/intersect_polys_r2d.h): the  *)
(*     polygon/polygon moment computation, in exact rational arithmetic.   *)
(*   - the remap of mesh variables in numbers: weights computed by         *)
(*     intersect_polys_r2d between small meshes, order-1 and order-2       *)
(*     interpolation of the values the driver is asked to remap.           *)
(***************************************************************************)
EXTENDS Integers, Sequences, FiniteSets, TLC

(***************************************************************************)
(* Bounds of the model.                                                    *)
(***************************************************************************)
\* number of public UberDriver calls explored in one session
MaxCalls == 2
\* the number of public calls explored in a remap in numbers
RemapCalls == 3

(***************************************************************************)
(* Entity kinds, source-state variables and build configuration.           *)
(***************************************************************************)
CELL == "CELL"
NODE == "NODE"
\* a kind other than CELL and NODE that the templates can be instantiated on
FACE == "FACE"
Kinds == {CELL, NODE, FACE}

MESH_FIELD == "MESH_FIELD"
MULTIMATERIAL_FIELD == "MULTIMATERIAL_FIELD"

\* source_state_.names(): the variables declared on the source state
NameSeq == <<"cellvar", "matvar", "nodevar">>
names == {NameSeq[i] : i \in 1..Len(NameSeq)}
\* source_state_.get_entity(name)
get_entity == [v \in names |-> IF v = "nodevar" THEN NODE ELSE CELL]
\* source_state_.field_type(onwhat, name)
field_type == [v \in names |-> IF v = "matvar" THEN MULTIMATERIAL_FIELD ELSE MESH_FIELD]
\* names a caller can give to the target variable of a source variable:
\* the same name or another one
OtherTrgName == "trgvar"
TrgNames == names \cup {OtherTrgName}

VARIABLES
  ndebug,                       \* build: NDEBUG defined (assert compiled out)
  has_tangram,                  \* build: PORTAGE_HAS_TANGRAM defined
  domain_mismatch,              \* environment: source/target domains differ
  source_vars_to_remap,         \* the constructor's argument (history)
  source_vars_to_remap_,
  source_state_,                \* source field name -> values on the source entities
  remap_kind_,
  have_multi_material_fields_,
  do_check_mismatch_,
  search_completed_,
  mesh_intersection_completed_,
  mat_intersection_completed_,
  source_weights_,
  source_weights_by_mat_,
  core_mismatch,                \* core driver of each kind: cached mismatch state
  intersection_result,          \* history: weights the latest intersect_meshes<K> returned
  mat_intersection_result,      \* history: weights the latest intersect_materials returned
  target_state_,                \* target field name -> what was last written
  last,                         \* the most recent public call and what it did
  alive,                        \* FALSE once the process aborted
  ncalls,
  in_source_poly,               \* arguments of the intersect_polys_r2d call
  in_target_poly,
  in_trg_convex,
  in_coord_sys,
  center,                       \* the center point the call settled on
  clipped,                      \* the clipped copies of the source polygon
  result,                       \* what the call returned
  poly_pc,                      \* "idle", "call" (before the call) or "done"
  app,                          \* momentumapp2D: the processes of one job
  fixup,                        \* the mismatch repair of one target field
  tasks                         \* the per-entity tasks of one interpolation

dvars == <<ndebug, has_tangram, domain_mismatch, source_vars_to_remap,
           source_vars_to_remap_, source_state_, remap_kind_,
           have_multi_material_fields_, do_check_mismatch_, search_completed_,
           mesh_intersection_completed_, mat_intersection_completed_,
           source_weights_, source_weights_by_mat_, core_mismatch,
           intersection_result, mat_intersection_result, target_state_,
           last, alive, ncalls>>

pvars == <<in_source_poly, in_target_poly, in_trg_convex, in_coord_sys,
           center, clipped, result, poly_pc>>

xvars == <<app, fixup, tasks>>

vars == <<dvars, pvars, xvars>>

(***************************************************************************)
(* Values handed between the driver, the core drivers and the caller.      *)
(***************************************************************************)
\* a default-constructed (empty) weights container
EmptyWeights == [kind |-> "none", cand |-> "none", mat |-> FALSE]
\* candidates a caller can hand to an intersect call: the result of a search
\* or a list built by the caller
Candidates == {"cand_CELL", "cand_NODE", "cand_user"}
\* for an intersection on kind k: the candidates of the search on k, or the
\* caller's own list
CandidatesFor(k) == IF k \in {CELL, NODE} THEN {"cand_" \o k, "cand_user"} ELSE {"cand_user"}
\* weights a caller can hand to interpolate_mesh_var / interpolate_mat_var:
\* the ones an intersection of the searched candidates returns
MeshWeightValues == {[kind |-> k, cand |-> "cand_" \o k, mat |-> FALSE] : k \in {CELL, NODE}}
MeshWeightsFor(k) == IF k \in {CELL, NODE} THEN {[kind |-> k, cand |-> "cand_" \o k, mat |-> FALSE]}
                     ELSE {EmptyWeights}
MatWeightValues == {[kind |-> CELL, cand |-> "cand_CELL", mat |-> TRUE]}

\* arguments of an interpolate call
Args == [lower_bound : {0}, upper_bound : {1},
         limiter : {"BARTH_JESPERSEN"}, bnd_limiter : {"BND_NOLIMITER"},
         partial_fixup_type : {"SHIFTED_CONSERVATIVE"}, empty_fixup_type : {"EXTRAPOLATE"},
         conservation_tol : {100}, max_fixup_iter : {5}]
NoArgs == [lower_bound |-> 0, upper_bound |-> 0, limiter |-> "-", bnd_limiter |-> "-",
           partial_fixup_type |-> "-", empty_fixup_type |-> "-",
           conservation_tol |-> 0, max_fixup_iter |-> 0]

\* one call made on a core driver (mat: material index, 0 when there is none)
Ev(call, k, src, trg, w, a, m) ==
  [call |-> call, kind |-> k, src |-> src, trg |-> trg, w |-> w, args |-> a, mat |-> m]

\* the record of a public call
Call(op, k, src, trg, order, w, a, outcome, events) ==
  [op |-> op, kind |-> k, src |-> src, trg |-> trg, order |-> order, w |-> w,
   args |-> a, outcome |-> outcome, events |-> events]

\* outcomes of a call
OK == "ok"
RUNTIME_ERROR == "runtime_error"      \* throw std::runtime_error
ASSERT_ABORT == "assert_abort"        \* a failed assert() in a build without NDEBUG
UNDEFINED == "undefined_behaviour"    \* call through a null core driver pointer
Fatal == {ASSERT_ABORT, UNDEFINED}

\* the gradients an interpolation is handed: none, or the gradient field of
\* a variable computed with a limiter and a boundary limiter
NoGradient == [src |-> "-", limiter |-> "-", bnd_limiter |-> "-"]
GradientOf(src, a) == [src |-> src, limiter |-> a.limiter, bnd_limiter |-> a.bnd_limiter]

\* what a target field holds
Unset == [src |-> "-", kind |-> "-", w |-> EmptyWeights, order |-> 0, grad |-> NoGradient,
          repaired |-> FALSE]

(***************************************************************************)
(* Construction.                                                           *)
(***************************************************************************)
\* the loop of both constructors over source_vars_to_remap_
RemapKindOf(source_vars) == [k \in Kinds |-> \E v \in source_vars : get_entity[v] = k]
HaveMultiMaterialOf(source_vars) == \E v \in source_vars : field_type[v] = MULTIMATERIAL_FIELD

\* first constructor: the caller lists the first n variables of the source state
GivenVarsToRemap(n) == {NameSeq[i] : i \in 1..n}

\* the second constructor without the assignment of names(): what C18 must
\* tell apart
DefaultVarsToRemap_KeepsEmpty(given) == given

\* second constructor: no list given, every variable of the source state
DefaultVarsToRemap(given) == IF given = {} THEN names ELSE given

\* the constructor's argument: the list the first constructor is given, or
\* no list (second constructor)
NoList == [given |-> FALSE, list |-> {}]
GivenList(vs) == [given |-> TRUE, list |-> vs]

\* source_vars_to_remap_ when the loop over it starts: the member is
\* initialised from the list, or is empty and then set to all the names
VarsToRemapOf(arg) == IF arg.given THEN arg.list ELSE DefaultVarsToRemap({})

\* instantiate_core_drivers: driver_cell_ / driver_node_ are made for the
\* kinds that have a registered variable
driver_exists(k) == k \in {CELL, NODE} /\ remap_kind_[k]

\* the driver after construction in a given build and environment
DriverInitWith(nd, ht, dm, arg) ==
  /\ ndebug = nd
  /\ has_tangram = ht
  /\ domain_mismatch = dm
  /\ source_vars_to_remap = arg
  /\ source_vars_to_remap_ = VarsToRemapOf(arg)
  /\ remap_kind_ = RemapKindOf(source_vars_to_remap_)
  /\ have_multi_material_fields_ = HaveMultiMaterialOf(source_vars_to_remap_)
  /\ do_check_mismatch_ = TRUE
  /\ search_completed_ = [k \in Kinds |-> FALSE]
  /\ mesh_intersection_completed_ = [k \in Kinds |-> FALSE]
  /\ mat_intersection_completed_ = FALSE
  /\ source_weights_ = [k \in Kinds |-> EmptyWeights]
  /\ source_weights_by_mat_ = EmptyWeights
  /\ core_mismatch = [k \in Kinds |-> "unchecked"]
  /\ intersection_result = [k \in Kinds |-> EmptyWeights]
  /\ mat_intersection_result = EmptyWeights
  /\ target_state_ = [t \in TrgNames |-> Unset]
  /\ last = Call("construct", "-", "-", "-", 0, EmptyWeights, NoArgs, OK, <<>>)
  /\ alive = TRUE
  /\ ncalls = 0

DriverInit ==
  \E nd \in BOOLEAN, ht \in BOOLEAN, dm \in BOOLEAN, n \in 0..Len(NameSeq) :
    DriverInitWith(nd, ht, dm,
                   IF n = Len(NameSeq) THEN NoList ELSE GivenList(GivenVarsToRemap(n)))

(***************************************************************************)
(* The mutable part of the driver as one value, so that an operation that  *)
(* calls another operation is the composition of the two.                  *)
(***************************************************************************)
Cur ==
  [do_check_mismatch_ |-> do_check_mismatch_,
   search_completed_ |-> search_completed_,
   mesh_intersection_completed_ |-> mesh_intersection_completed_,
   mat_intersection_completed_ |-> mat_intersection_completed_,
   source_weights_ |-> source_weights_,
   source_weights_by_mat_ |-> source_weights_by_mat_,
   core_mismatch |-> core_mismatch,
   intersection_result |-> intersection_result,
   mat_intersection_result |-> mat_intersection_result,
   target_state_ |-> target_state_]

\* the result of an operation: new state, outcome, the core-driver calls it
\* made, and the value it returned (candidates or weights)
Res(d, outcome, events, cand, w) ==
  [d |-> d, outcome |-> outcome, events |-> events, cand |-> cand, w |-> w]

(***************************************************************************)
(* Core drivers (portage/driver/coredriver.h), one per entity kind.        *)
(***************************************************************************)
\* CoreDriver::search: the candidate list of its kind
CoreSearch(k) == IF k = CELL THEN "cand_CELL" ELSE "cand_NODE"
\* CoreDriver::intersect_meshes: the weights of these candidates
CoreIntersectMeshes(k, c) == [kind |-> k, cand |-> c, mat |-> FALSE]
\* CoreDriver::intersect_materials: the per-material weights
CoreIntersectMaterials(c) == [kind |-> CELL, cand |-> c, mat |-> TRUE]
\* CoreDriver::check_mismatch: computes and caches the mismatch state
CoreCheckMismatch(w) == IF domain_mismatch THEN "mismatch" ELSE "match"
\* CoreDriver::has_mismatch: the cached state; hm is what the call yields
\* when check_mismatch never ran for this kind
CoreHasMismatch(d, k, hm) ==
  IF d.core_mismatch[k] = "unchecked" THEN hm ELSE d.core_mismatch[k] = "mismatch"
\* CoreDriver::interpolate_mesh_var / interpolate_mat_var: writes the target field
CoreInterpolate(d, k, src, trg, w, order, g) ==
  [d EXCEPT !.target_state_[trg] =
     [src |-> src, kind |-> k, w |-> w, order |-> order, grad |-> g, repaired |-> FALSE]]
\* CoreDriver::fix_mismatch: repairs the target field in place
CoreFixMismatch(d, trg) == [d EXCEPT !.target_state_[trg].repaired = TRUE]
\* source_state_.num_materials()
num_materials == 2

(***************************************************************************)
(* UberDriver operations.  d is the driver state the operation starts in.  *)
(***************************************************************************)
\* assert(cond): aborts the process unless NDEBUG is defined
AssertFails(cond) == ~ndebug /\ ~cond

\* set_check_mismatch_flag
SetCheckMismatchFlagOp(d, b) ==
  Res([d EXCEPT !.do_check_mismatch_ = b], OK, <<>>, "none", EmptyWeights)

\* search<ONWHAT, Search>
SearchOp(d, k) ==
  LET d1 == [d EXCEPT !.search_completed_[k] = TRUE]
  IN  IF k \in {CELL, NODE}
      THEN IF driver_exists(k)
           THEN Res(d1, OK, <<Ev("search", k, "-", "-", EmptyWeights, NoArgs, 0)>>,
                    CoreSearch(k), EmptyWeights)
           ELSE Res(d1, UNDEFINED, <<>>, "none", EmptyWeights)
      ELSE Res(d1, RUNTIME_ERROR, <<>>, "none", EmptyWeights)

\* intersect_meshes<ONWHAT, Intersect>(candidates)
IntersectMeshesOp(d, k, c) ==
  IF k \in {CELL, NODE}
  THEN IF ~driver_exists(k)
       THEN Res(d, UNDEFINED, <<>>, "none", EmptyWeights)
       ELSE LET weights == CoreIntersectMeshes(k, c)
                d1 == IF d.do_check_mismatch_
                      THEN [d EXCEPT !.core_mismatch[k] = CoreCheckMismatch(weights)]
                      ELSE d
                d2 == [d1 EXCEPT !.mesh_intersection_completed_[k] = TRUE,
                                 !.intersection_result[k] = weights]
                ev == <<Ev("intersect_meshes", k, "-", "-", weights, NoArgs, 0)>>
                      \o (IF d.do_check_mismatch_
                          THEN <<Ev("check_mismatch", k, "-", "-", weights, NoArgs, 0)>>
                          ELSE <<>>)
            IN  Res(d2, OK, ev, "none", weights)
  ELSE Res(d, RUNTIME_ERROR, <<>>, "none", EmptyWeights)

\* intersect_materials<Intersect>(candidates)
IntersectMaterialsOp(d, c) ==
  IF AssertFails(remap_kind_[CELL])
  THEN Res(d, ASSERT_ABORT, <<>>, "none", EmptyWeights)
  ELSE LET d1 == [d EXCEPT !.mat_intersection_completed_ = TRUE]
       IN  IF ~driver_exists(CELL)
           THEN Res(d1, UNDEFINED, <<>>, "none", EmptyWeights)
           ELSE IF has_tangram
           THEN Res([d1 EXCEPT !.mat_intersection_result = CoreIntersectMaterials(c)], OK,
                    <<Ev("intersect_materials", CELL, "-", "-", CoreIntersectMaterials(c), NoArgs, 0)>>,
                    "none", CoreIntersectMaterials(c))
           ELSE Res(d1, RUNTIME_ERROR, <<>>, "none", EmptyWeights)

\* one entity kind of compute_interpolation_weights: search, intersect_meshes,
\* store the weights, and for cells the material intersection
WeightsOfKind(d, k) ==
  LET s == SearchOp(d, k)
      m == IntersectMeshesOp(s.d, k, s.cand)
      dm == [m.d EXCEPT !.source_weights_[k] = m.w]
      t == IntersectMaterialsOp(dm, s.cand)
      dt == [t.d EXCEPT !.source_weights_by_mat_ = t.w]
  IN  IF s.outcome # OK THEN s
      ELSE IF m.outcome # OK THEN Res(m.d, m.outcome, s.events \o m.events, "none", EmptyWeights)
      ELSE IF k = CELL /\ have_multi_material_fields_
      THEN IF t.outcome # OK
           THEN Res(t.d, t.outcome, s.events \o m.events \o t.events, "none", EmptyWeights)
           ELSE Res(dt, OK, s.events \o m.events \o t.events, "none", EmptyWeights)
      ELSE Res(dm, OK, s.events \o m.events, "none", EmptyWeights)

\* compute_interpolation_weights without its block for the nodes: what C26
\* must tell apart
ComputeInterpolationWeightsOp_CellsOnly(d) ==
  IF remap_kind_[CELL] THEN WeightsOfKind(d, CELL)
  ELSE Res(d, OK, <<>>, "none", EmptyWeights)

\* compute_interpolation_weights<Search, Intersect>
ComputeInterpolationWeightsOp(d) ==
  LET c == IF remap_kind_[CELL] THEN WeightsOfKind(d, CELL)
           ELSE Res(d, OK, <<>>, "none", EmptyWeights)
      n == IF remap_kind_[NODE] THEN WeightsOfKind(c.d, NODE)
           ELSE Res(c.d, OK, <<>>, "none", EmptyWeights)
  IN  IF c.outcome # OK THEN c
      ELSE Res(n.d, n.outcome, c.events \o n.events, "none", EmptyWeights)

\* an order-2 interpolation that computes no gradient of its own: what C19
\* must tell apart
MeshGradientEvents_Reused(k, src, a, order) == <<>>

\* the gradient computations of an order-2 mesh-variable interpolation
MeshGradientEvents(k, src, a, order) ==
  IF order = 2
  THEN <<Ev("compute_source_gradient", k, src, "-", EmptyWeights, a, 0)>>
  ELSE <<>>

\* an order-2 interpolation handed no gradients: what C16 must tell apart
MeshGradients_None(k, src, a, order) == NoGradient

\* auto gradients = compute_source_gradient(srcvarname, limiter, bnd_limiter):
\* what the order-2 branch hands to the interpolation, and the order-1 branch
\* does not
MeshGradients(k, src, a, order) == IF order = 2 THEN GradientOf(src, a) ELSE NoGradient

\* MeshFixup without the call of fix_mismatch: what C8 must tell apart
MeshFixup_NoRepair(d, k, src, trg, a, hm) ==
  IF d.do_check_mismatch_
  THEN [d |-> d, events |-> <<Ev("has_mismatch", k, "-", "-", EmptyWeights, NoArgs, 0)>>]
  ELSE [d |-> d, events |-> <<>>]

\* MeshFixup that repairs after every interpolation, asked for or not, needed
\* or not: what C23 must tell apart
MeshFixup_Always(d, k, src, trg, a, hm) ==
  [d |-> CoreFixMismatch(d, trg),
   events |-> <<Ev("has_mismatch", k, "-", "-", EmptyWeights, NoArgs, 0),
                Ev("fix_mismatch", k, src, trg, EmptyWeights, a, 0)>>]

\* the mismatch repair that follows a mesh-variable interpolation; hm is the
\* answer of has_mismatch() when the mismatch state was never computed
MeshFixup(d, k, src, trg, a, hm) ==
  IF d.do_check_mismatch_
  THEN IF CoreHasMismatch(d, k, hm)
       THEN [d |-> CoreFixMismatch(d, trg),
             events |-> <<Ev("has_mismatch", k, "-", "-", EmptyWeights, NoArgs, 0),
                          Ev("fix_mismatch", k, src, trg, EmptyWeights, a, 0)>>]
       ELSE [d |-> d, events |-> <<Ev("has_mismatch", k, "-", "-", EmptyWeights, NoArgs, 0)>>]
  ELSE [d |-> d, events |-> <<>>]

\* interpolate_mesh_var without the registration check: what C4 must tell apart
InterpolateMeshVarOp_Unchecked(d, k, src, trg, w, a, order, hm) ==
  IF AssertFails(get_entity[src] = k)
  THEN Res(d, ASSERT_ABORT, <<>>, "none", EmptyWeights)
  ELSE IF k \in {CELL, NODE}
  THEN IF ~driver_exists(k)
       THEN Res(d, UNDEFINED, <<>>, "none", EmptyWeights)
       ELSE LET d1 == CoreInterpolate(d, k, src, trg, w, order, MeshGradients(k, src, a, order))
                fx == MeshFixup(d1, k, src, trg, a, hm)
            IN  Res(fx.d, OK,
                    MeshGradientEvents(k, src, a, order)
                    \o <<Ev("interpolate_mesh_var", k, src, trg, w, NoArgs, 0)>>
                    \o fx.events,
                    "none", EmptyWeights)
  ELSE Res(d, OK, <<>>, "none", EmptyWeights)

\* interpolate_mesh_var handing the two names to the core driver in the other
\* order: what C14 must tell apart
InterpolateMeshVarOp_SwappedNames(d, k, src, trg, w, a, order, hm) ==
  IF AssertFails(get_entity[src] = k)
  THEN Res(d, ASSERT_ABORT, <<>>, "none", EmptyWeights)
  ELSE IF src \notin source_vars_to_remap_
  THEN Res(d, RUNTIME_ERROR, <<>>, "none", EmptyWeights)
  ELSE IF k \in {CELL, NODE}
  THEN IF ~driver_exists(k)
       THEN Res(d, UNDEFINED, <<>>, "none", EmptyWeights)
       ELSE LET d1 == CoreInterpolate(d, k, trg, src, w, order, MeshGradients(k, src, a, order))
                fx == MeshFixup(d1, k, trg, src, a, hm)
            IN  Res(fx.d, OK,
                    MeshGradientEvents(k, src, a, order)
                    \o <<Ev("interpolate_mesh_var", k, src, trg, w, NoArgs, 0)>>
                    \o fx.events,
                    "none", EmptyWeights)
  ELSE Res(d, OK, <<>>, "none", EmptyWeights)

\* interpolate_mesh_var<T, ONWHAT, Interpolate>(srcvarname, trgvarname, weights, ...)
InterpolateMeshVarOp(d, k, src, trg, w, a, order, hm) ==
  IF AssertFails(get_entity[src] = k)
  THEN Res(d, ASSERT_ABORT, <<>>, "none", EmptyWeights)
  ELSE IF src \notin source_vars_to_remap_
  THEN Res(d, RUNTIME_ERROR, <<>>, "none", EmptyWeights)
  ELSE IF k \in {CELL, NODE}
  THEN IF ~driver_exists(k)
       THEN Res(d, UNDEFINED, <<>>, "none", EmptyWeights)
       ELSE LET d1 == CoreInterpolate(d, k, src, trg, w, order, MeshGradients(k, src, a, order))
                fx == MeshFixup(d1, k, src, trg, a, hm)
            IN  Res(fx.d, OK,
                    MeshGradientEvents(k, src, a, order)
                    \o <<Ev("interpolate_mesh_var", k, src, trg, w, NoArgs, 0)>>
                    \o fx.events,
                    "none", EmptyWeights)
  ELSE Res(d, OK, <<>>, "none", EmptyWeights)

\* the gradient computations of an order-2 material-variable interpolation
MatGradientEvents(src, a, order) ==
  IF order = 2
  THEN <<Ev("cache_multimat_gradient_stencils", CELL, "-", "-", EmptyWeights, NoArgs, 0)>>
       \o [i \in 1..num_materials |->
             Ev("compute_source_gradient", CELL, src, "-", EmptyWeights, a, i)]
  ELSE <<>>

\* the per-material gradients the order-2 branch hands to the interpolation
MatGradients(src, a, order) == IF order = 2 THEN GradientOf(src, a) ELSE NoGradient

\* interpolate_mat_var<T, Interpolate>(srcvarname, trgvarname, weights_by_mat, ...)
InterpolateMatVarOp(d, src, trg, w, a, order) ==
  IF AssertFails(get_entity[src] = CELL)
  THEN Res(d, ASSERT_ABORT, <<>>, "none", EmptyWeights)
  ELSE IF src \notin source_vars_to_remap_
  THEN Res(d, RUNTIME_ERROR, <<>>, "none", EmptyWeights)
  ELSE IF has_tangram
  THEN IF ~driver_exists(CELL)
       THEN Res(d, UNDEFINED, <<>>, "none", EmptyWeights)
       ELSE Res(CoreInterpolate(d, CELL, src, trg, w, order, MatGradients(src, a, order)), OK,
                MatGradientEvents(src, a, order)
                \o <<Ev("interpolate_mat_var", CELL, src, trg, w, NoArgs, 0)>>,
                "none", EmptyWeights)
  ELSE Res(d, OK, <<>>, "none", EmptyWeights)

\* interpolate<T, ONWHAT, Interpolate>(srcvarname, trgvarname, ...)
InterpolateOp(d, k, src, trg, a, order, hm) ==
  IF AssertFails(get_entity[src] = k) \/ AssertFails(d.mesh_intersection_completed_[k])
  THEN Res(d, ASSERT_ABORT, <<>>, "none", EmptyWeights)
  ELSE IF src \notin source_vars_to_remap_
  THEN Res(d, RUNTIME_ERROR, <<>>, "none", EmptyWeights)
  ELSE IF field_type[src] = MULTIMATERIAL_FIELD
  THEN IF has_tangram
       THEN IF AssertFails(d.mat_intersection_completed_) \/ AssertFails(k = CELL)
            THEN Res(d, ASSERT_ABORT, <<>>, "none", EmptyWeights)
            ELSE InterpolateMatVarOp(d, src, trg, d.source_weights_by_mat_, a, order)
       ELSE Res(d, OK, <<>>, "none", EmptyWeights)
  ELSE IF AssertFails(d.mesh_intersection_completed_[k])
       THEN Res(d, ASSERT_ABORT, <<>>, "none", EmptyWeights)
       ELSE InterpolateMeshVarOp(d, k, src, trg, d.source_weights_[k], a, order, hm)

\* the one-name overload forwarding another target name: what C17 must tell
\* apart
InterpolateSameNameOp_OtherTarget(d, k, src, a, order, hm) ==
  InterpolateOp(d, k, src, OtherTrgName, a, order, hm)

\* interpolate<T, ONWHAT, Interpolate>(srcvarname, ...): same name on both meshes
InterpolateSameNameOp(d, k, src, a, order, hm) ==
  InterpolateOp(d, k, src, src, a, order, hm)

(***************************************************************************)
(* Actions: one public call each.                                          *)
(***************************************************************************)
CanCall == alive /\ ncalls < MaxCalls

\* what has_mismatch() can answer for kind k in a call for variable src: the
\* cached state, or either value when check_mismatch never ran for k (a call
\* for a kind without a core driver or for an unregistered variable never
\* gets as far as asking)
HasMismatchAnswers(k, src) ==
  IF /\ do_check_mismatch_
     /\ driver_exists(k)
     /\ src \in source_vars_to_remap_
     /\ core_mismatch[k] = "unchecked"
  THEN BOOLEAN ELSE {FALSE}

\* the state after a call that produced result r
Commit(r, call) ==
  /\ do_check_mismatch_' = r.d.do_check_mismatch_
  /\ search_completed_' = r.d.search_completed_
  /\ mesh_intersection_completed_' = r.d.mesh_intersection_completed_
  /\ mat_intersection_completed_' = r.d.mat_intersection_completed_
  /\ source_weights_' = r.d.source_weights_
  /\ source_weights_by_mat_' = r.d.source_weights_by_mat_
  /\ core_mismatch' = r.d.core_mismatch
  /\ intersection_result' = r.d.intersection_result
  /\ mat_intersection_result' = r.d.mat_intersection_result
  /\ target_state_' = r.d.target_state_
  /\ last' = call
  /\ alive' = (r.outcome \notin Fatal)
  /\ ncalls' = ncalls + 1
  /\ UNCHANGED <<ndebug, has_tangram, domain_mismatch, source_vars_to_remap,
                 source_vars_to_remap_, source_state_, remap_kind_,
                 have_multi_material_fields_>>
  /\ UNCHANGED pvars
  /\ UNCHANGED xvars

SetCheckMismatchFlag ==
  /\ CanCall
  /\ \E b \in BOOLEAN :
       LET r == SetCheckMismatchFlagOp(Cur, b)
       IN  Commit(r, Call("set_check_mismatch_flag", "-", "-", "-", 0, EmptyWeights,
                          NoArgs, r.outcome, r.events))

Search ==
  /\ CanCall
  /\ \E k \in Kinds :
       LET r == SearchOp(Cur, k)
       IN  Commit(r, Call("search", k, "-", "-", 0, EmptyWeights, NoArgs,
                          r.outcome, r.events))

IntersectMeshes ==
  /\ CanCall
  /\ \E k \in Kinds : \E c \in CandidatesFor(k) :
       LET r == IntersectMeshesOp(Cur, k, c)
       IN  Commit(r, Call("intersect_meshes", k, "-", "-", 0, r.w, NoArgs,
                          r.outcome, r.events))

IntersectMaterials ==
  /\ CanCall
  /\ \E c \in CandidatesFor(CELL) :
       LET r == IntersectMaterialsOp(Cur, c)
       IN  Commit(r, Call("intersect_materials", CELL, "-", "-", 0, r.w, NoArgs,
                          r.outcome, r.events))

ComputeInterpolationWeights ==
  /\ CanCall
  /\ LET r == ComputeInterpolationWeightsOp(Cur)
     IN  Commit(r, Call("compute_interpolation_weights", "-", "-", "-", 0, EmptyWeights,
                        NoArgs, r.outcome, r.events))

\* interpolate with two names (a target name of its own) or with one name
\* (has_mismatch is asked on the mesh-variable path only)
Interpolate ==
  /\ CanCall
  /\ \E k \in Kinds, src \in names, a \in Args, order \in {1, 2}, same \in BOOLEAN :
     \E hm \in (IF field_type[src] = MESH_FIELD THEN HasMismatchAnswers(k, src) ELSE {FALSE}) :
       LET r == IF same THEN InterpolateSameNameOp(Cur, k, src, a, order, hm)
                ELSE InterpolateOp(Cur, k, src, OtherTrgName, a, order, hm)
       IN  Commit(r, Call("interpolate", k, src, IF same THEN src ELSE OtherTrgName,
                          order, EmptyWeights, a, r.outcome, r.events))

InterpolateMeshVar ==
  /\ CanCall
  /\ \E k \in Kinds, src \in names, a \in Args, order \in {1, 2} :
     \E w \in MeshWeightsFor(k), trg \in {OtherTrgName}, hm \in HasMismatchAnswers(k, src) :
       LET r == InterpolateMeshVarOp(Cur, k, src, trg, w, a, order, hm)
       IN  Commit(r, Call("interpolate_mesh_var", k, src, trg, order, w, a,
                          r.outcome, r.events))

InterpolateMatVar ==
  /\ CanCall
  /\ \E src \in names, a \in Args, order \in {1, 2}, w \in MatWeightValues :
     \E trg \in {OtherTrgName} :
       LET r == InterpolateMatVarOp(Cur, src, trg, w, a, order)
       IN  Commit(r, Call("interpolate_mat_var", CELL, src, trg, order, w, a,
                          r.outcome, r.events))

DriverNext ==
  \/ SetCheckMismatchFlag
  \/ Search
  \/ IntersectMeshes
  \/ IntersectMaterials
  \/ ComputeInterpolationWeights
  \/ Interpolate
  \/ InterpolateMeshVar
  \/ InterpolateMatVar

(***************************************************************************)
(* Exact arithmetic for intersect_polys_r2d.  A double is modelled as a    *)
(* reduced fraction n/d with d > 0; d = 0 stands for the non-finite        *)
(* values: 0/0 is NaN and 1/0, -1/0 are the infinities.                    *)
(***************************************************************************)
Abs(a) == IF a < 0 THEN -a ELSE a
Sign(a) == IF a < 0 THEN -1 ELSE IF a > 0 THEN 1 ELSE 0

RECURSIVE GCD(_, _)
GCD(a, b) == IF b = 0 THEN a ELSE GCD(b, a % b)

\* the fraction n/d in lowest terms (d # 0)
Frac(n, d) ==
  LET g == GCD(Abs(n), Abs(d))
  IN  [n |-> Sign(d) * (n \div g), d |-> Abs(d) \div g]

R(k) == [n |-> k, d |-> 1]
Zero == R(0)
NaN == [n |-> 0, d |-> 0]
Inf(sgn) == [n |-> sgn, d |-> 0]
IsNaN(a) == a.d = 0 /\ a.n = 0
IsInf(a) == a.d = 0 /\ a.n # 0
IsFinite(a) == a.d # 0

RNeg(a) == [n |-> -a.n, d |-> a.d]

RAdd(a, b) ==
  IF a.d # 0 /\ b.d # 0
  THEN LET g == GCD(a.d, b.d)
       IN  Frac(a.n * (b.d \div g) + b.n * (a.d \div g), (a.d \div g) * b.d)
  ELSE IF IsNaN(a) \/ IsNaN(b) THEN NaN
  ELSE IF IsInf(a) THEN (IF IsInf(b) /\ b.n # a.n THEN NaN ELSE a)
  ELSE b

RSub(a, b) == RAdd(a, RNeg(b))

RMul(a, b) ==
  IF a.d # 0 /\ b.d # 0
  THEN LET g1 == GCD(Abs(a.n), b.d)
           g2 == GCD(Abs(b.n), a.d)
       IN  [n |-> (a.n \div g1) * (b.n \div g2), d |-> (a.d \div g2) * (b.d \div g1)]
  ELSE IF IsNaN(a) \/ IsNaN(b) \/ a.n = 0 \/ b.n = 0 THEN NaN
  ELSE Inf(Sign(a.n) * Sign(b.n))

RDiv(a, b) ==
  IF a.d # 0 /\ b.d # 0 /\ b.n # 0
  THEN LET g1 == GCD(Abs(a.n), Abs(b.n))
           g2 == GCD(b.d, a.d)
       IN  [n |-> Sign(b.n) * (a.n \div g1) * (b.d \div g2),
            d |-> (a.d \div g2) * (Abs(b.n) \div g1)]
  ELSE IF IsNaN(a) \/ IsNaN(b) THEN NaN
  ELSE IF IsInf(a) THEN (IF IsInf(b) THEN NaN ELSE Inf(a.n * (IF b.n < 0 THEN -1 ELSE 1)))
  ELSE IF IsInf(b) THEN Zero
  ELSE IF a.n = 0 THEN NaN
  ELSE Inf(Sign(a.n))

\* a < 0. and a > 0. as the hardware compares them: false for NaN
RLess0(a) == a.n < 0
RGreater0(a) == a.n > 0

(***************************************************************************)
(* Points, planes and the r2d primitives the function calls.               *)
(***************************************************************************)
\* a std::vector or C array: the sequence with every element computed
Tuple(s) == SubSeq(s, 1, Len(s))

Pt(x, y) == [x |-> x, y |-> y]
IPt(i, j) == Pt(R(i), R(j))
PAdd(p, q) == Pt(RAdd(p.x, q.x), RAdd(p.y, q.y))
PScale(c, p) == Pt(RMul(c, p.x), RMul(c, p.y))
PDiv(p, c) == Pt(RDiv(p.x, c), RDiv(p.y, c))

\* vertex i of a loop, counted from 0 as in the source
V(poly, i) == poly[i + 1]
\* vertex (i+1) % size of a loop
VNext(poly, i) == poly[((i + 1) % Len(poly)) + 1]

\* r2d_orient(pa, pb, pc): signed area of the triangle
r2d_orient(pa, pb, pc) ==
  RMul([n |-> 1, d |-> 2],
       RSub(RMul(RSub(pa.x, pc.x), RSub(pb.y, pc.y)),
            RMul(RSub(pa.y, pc.y), RSub(pb.x, pc.x))))

\* one plane of r2d_poly_faces_from_verts: the line through p0 and p1 with the
\* interior on its left.  r2d scales the normal to unit length, which leaves
\* the half-plane unchanged; a zero-length or non-finite edge gives NaN.
FaceOf(p0, p1) ==
  LET nx == RSub(p0.y, p1.y)
      ny == RSub(p1.x, p0.x)
  IN  IF ~IsFinite(nx) \/ ~IsFinite(ny) \/ (nx.n = 0 /\ ny.n = 0)
      THEN [nx |-> NaN, ny |-> NaN, d |-> NaN]
      ELSE [nx |-> nx, ny |-> ny, d |-> RNeg(RAdd(RMul(nx, p0.x), RMul(ny, p0.y)))]

\* r2d_poly_faces_from_verts(faces, verts, numverts)
r2d_poly_faces_from_verts(verts) ==
  Tuple([f \in 1..Len(verts) |-> FaceOf(verts[f], verts[(f % Len(verts)) + 1])])

\* signed distance of a vertex to a plane
SDist(pl, p) == RAdd(pl.d, RAdd(RMul(pl.nx, p.x), RMul(pl.ny, p.y)))

\* the new vertex r2d_clip puts on an edge between a kept vertex pu and a
\* clipped vertex pc (weighted average)
CutPoint(pu, su, pc, sc) ==
  PDiv(PAdd(PScale(RNeg(sc), pu), PScale(su, pc)), RSub(su, sc))

\* what the clipped loop holds for the edge from vertex i to the next one:
\* vertex i if it is kept, then the new vertex if the edge crosses the plane
ClipEdge(poly, sd, i) ==
  LET j == (i % Len(poly)) + 1
      keep == IF RLess0(sd[i]) THEN <<>> ELSE <<poly[i]>>
      cut == IF RLess0(sd[i]) # RLess0(sd[j])
             THEN IF RLess0(sd[i])
                  THEN <<CutPoint(poly[j], sd[j], poly[i], sd[i])>>
                  ELSE <<CutPoint(poly[i], sd[i], poly[j], sd[j])>>
             ELSE <<>>
  IN  keep \o cut

\* the clipped loop along the edges lo .. hi, in order
RECURSIVE ClipLoop(_, _, _, _)
ClipLoop(poly, sd, lo, hi) ==
  IF lo = hi THEN ClipEdge(poly, sd, lo)
  ELSE LET mid == (lo + hi) \div 2
       IN  ClipLoop(poly, sd, lo, mid) \o ClipLoop(poly, sd, mid + 1, hi)

\* r2d_clip against one plane: a plane the polygon lies inside of (smin >= 0,
\* which is also what a NaN plane yields) is skipped; a polygon entirely
\* outside (smax <= 0) becomes empty
ClipPlane(poly, pl) ==
  LET sd == Tuple([i \in 1..Len(poly) |-> SDist(pl, poly[i])])
  IN  IF Len(poly) = 0 THEN poly
      ELSE IF \A i \in 1..Len(poly) : ~RLess0(sd[i]) THEN poly
      ELSE IF \A i \in 1..Len(poly) : ~RGreater0(sd[i]) THEN <<>>
      ELSE ClipLoop(poly, sd, 1, Len(poly))

\* r2d_clip(poly, planes, nplanes)
RECURSIVE r2d_clip(_, _, _)
r2d_clip(poly, planes, nplanes) ==
  IF nplanes = 0 THEN poly
  ELSE ClipPlane(r2d_clip(poly, planes, nplanes - 1), planes[nplanes])

\* R2D_NUM_MOMENTS(order)
R2D_NUM_MOMENTS(order) == ((order + 1) * (order + 2)) \div 2

\* the contribution of the edge v0 -> v1 to the moments 1, x, y, x^2, xy, y^2
EdgeMoments(v0, v1, order) ==
  LET twoa == RSub(RMul(v0.x, v1.y), RMul(v0.y, v1.x))
      m0 == RMul([n |-> 1, d |-> 2], twoa)
      mx == RMul([n |-> 1, d |-> 6], RMul(twoa, RAdd(v0.x, v1.x)))
      my == RMul([n |-> 1, d |-> 6], RMul(twoa, RAdd(v0.y, v1.y)))
      mxx == RMul([n |-> 1, d |-> 12],
                  RMul(twoa, RAdd(RMul(v0.x, v0.x), RAdd(RMul(v0.x, v1.x), RMul(v1.x, v1.x)))))
      mxy == RMul([n |-> 1, d |-> 24],
                  RMul(twoa, RAdd(RAdd(RMul(R(2), RMul(v0.x, v0.y)), RMul(v0.x, v1.y)),
                                  RAdd(RMul(v1.x, v0.y), RMul(R(2), RMul(v1.x, v1.y))))))
      myy == RMul([n |-> 1, d |-> 12],
                  RMul(twoa, RAdd(RMul(v0.y, v0.y), RAdd(RMul(v0.y, v1.y), RMul(v1.y, v1.y)))))
  IN  IF order = 1 THEN <<m0, mx, my>> ELSE <<m0, mx, my, mxx, mxy, myy>>

\* componentwise sum of two moment lists of the same length
MAdd(a, b) == Tuple([j \in 1..Len(a) |-> RAdd(a[j], b[j])])
ZeroMoments(n) == Tuple([j \in 1..n |-> Zero])

\* the sum of the contributions of the edges lo .. hi (the arithmetic is
\* exact, so the order of the additions does not matter)
RECURSIVE ReduceLoop(_, _, _, _)
ReduceLoop(poly, order, lo, hi) ==
  IF lo = hi THEN EdgeMoments(poly[lo], poly[(lo % Len(poly)) + 1], order)
  ELSE LET mid == (lo + hi) \div 2
       IN  MAdd(ReduceLoop(poly, order, lo, mid), ReduceLoop(poly, order, mid + 1, hi))

\* r2d_reduce(poly, moments, polyorder): the moments of the polygon
r2d_reduce(poly, order) ==
  IF Len(poly) = 0 THEN ZeroMoments(R2D_NUM_MOMENTS(order))
  ELSE ReduceLoop(poly, order, 1, Len(poly))

(***************************************************************************)
(* intersect_polys_r2d                                                     *)
(***************************************************************************)
Cartesian == "Cartesian"
CylindricalAxisymmetric == "CylindricalAxisymmetric"
CoordSysTypes == {Cartesian, CylindricalAxisymmetric}

\* Wonton::CylindricalAxisymmetricCoordinates::shift_moments_list<2>: the
\* moments of x*f replace the moments of f (1, x, y become x, x^2, xy)
shift_moments_list(moments) == <<moments[2], moments[4], moments[5]>>

\* the orientation test of a center point: every triangle
\* (cen, vertex i, vertex i+1) has non-negative signed area
CenterPointOk(cen, poly) ==
  \A i \in 0..(Len(poly) - 1) : ~RLess0(r2d_orient(cen, V(poly, i), VNext(poly, i)))

\* area_sum and the area-weighted sum of the centroids of the triangles
\* (vertex 0, vertex i, vertex i+1), i = lo .. hi
RECURSIVE FanSums(_, _, _)
FanSums(poly, lo, hi) ==
  IF lo > hi THEN [area_sum |-> Zero, cen |-> Pt(Zero, Zero)]
  ELSE IF lo = hi
  THEN LET area == r2d_orient(V(poly, 0), V(poly, lo), VNext(poly, lo))
           tricen == PDiv(PAdd(PAdd(V(poly, 0), V(poly, lo)), VNext(poly, lo)), R(3))
       IN  [area_sum |-> area, cen |-> PScale(area, tricen)]
  ELSE LET mid == (lo + hi) \div 2
           a == FanSums(poly, lo, mid)
           b == FanSums(poly, mid + 1, hi)
       IN  [area_sum |-> RAdd(a.area_sum, b.area_sum), cen |-> PAdd(a.cen, b.cen)]

\* first candidate: centroid of the fan triangulation from vertex 0
FanCentroid(poly) ==
  LET fs == FanSums(poly, 1, Len(poly) - 1)
  IN  PDiv(fs.cen, fs.area_sum)

\* the polygon clipped with its own face planes
FeasibleSet(poly) == r2d_clip(poly, r2d_poly_faces_from_verts(poly), Len(poly))

\* second candidate: centroid of the feasible set from its moments
FeasibleCentroid(poly, poly_order) ==
  LET fspoly_moments == r2d_reduce(FeasibleSet(poly), poly_order)
  IN  Pt(RDiv(fspoly_moments[2], fspoly_moments[1]),
         RDiv(fspoly_moments[3], fspoly_moments[1]))

\* poly_order: the degree of the moments the call computes
PolyOrder(coord_sys) == IF coord_sys = CylindricalAxisymmetric THEN 2 ELSE 1

\* the test that sends back the zero moments with only size1 looked at: what
\* C9 must tell apart
EarlyReturn_Size1Only(source_poly, target_poly) == Len(source_poly) = 0

\* if (!size1 || !size2) return moments
EarlyReturn(source_poly, target_poly) == Len(source_poly) = 0 \/ Len(target_poly) = 0

NoPoint == Pt(NaN, NaN)

\* the center point of a call that needs none
NoCenter == [cen |-> NoPoint, first_ok |-> TRUE, fallback |-> FALSE, center_point_ok |-> TRUE]

\* the center point of the fan: the centroid of the target polygon, and if it
\* fails the orientation test the centroid of the feasible set.  The second
\* test can only clear center_point_ok, which the first test has cleared.
CenterPoint(target_poly, poly_order) ==
  LET cen1 == FanCentroid(target_poly)
      ok1 == CenterPointOk(cen1, target_poly)
  IN  IF ok1
      THEN [cen |-> cen1, first_ok |-> TRUE, fallback |-> FALSE, center_point_ok |-> TRUE]
      ELSE LET cen2 == FeasibleCentroid(target_poly, poly_order)
           IN  [cen |-> cen2, first_ok |-> FALSE, fallback |-> TRUE,
                center_point_ok |-> ok1 /\ CenterPointOk(cen2, target_poly)]

\* the triangle (cen, vertex i, vertex i+1) of the fan
FanTriangle(target_poly, cen, i) == <<cen, V(target_poly, i), VNext(target_poly, i)>>

\* a clip against all but the last face of a convex target: what C13 must
\* tell apart
ClippedPolys_OneFaceShort(source_poly, target_poly, trg_convex, cen) ==
  IF trg_convex
  THEN <<r2d_clip(source_poly, r2d_poly_faces_from_verts(target_poly), Len(target_poly) - 1)>>
  ELSE Tuple([t \in 1..Len(target_poly) |->
                r2d_clip(source_poly,
                         r2d_poly_faces_from_verts(FanTriangle(target_poly, cen, t - 1)), 3)])

\* the source polygon left as it is: what C15 must tell apart
ClippedPolys_Unclipped(source_poly, target_poly, trg_convex, cen) ==
  IF trg_convex THEN <<source_poly>> ELSE Tuple([t \in 1..Len(target_poly) |-> source_poly])

\* the source polygon after r2d_clip: one polygon clipped by the faces of a
\* convex target, or one copy per fan triangle
ClippedPolys(source_poly, target_poly, trg_convex, cen) ==
  IF trg_convex
  THEN <<r2d_clip(source_poly, r2d_poly_faces_from_verts(target_poly), Len(target_poly))>>
  ELSE Tuple([t \in 1..Len(target_poly) |->
                r2d_clip(source_poly,
                         r2d_poly_faces_from_verts(FanTriangle(target_poly, cen, t - 1)), 3)])

\* moments[j] += om[j] for j < 3
Accumulate3(moments, om) ==
  Tuple([j \in 1..Len(moments) |-> IF j <= 3 THEN RAdd(moments[j], om[j]) ELSE moments[j]])

\* the fan loop over the clipped copies lo .. hi, starting from moments (the
\* arithmetic is exact, so the order of the additions does not matter)
RECURSIVE FanAccumulate(_, _, _, _, _)
FanAccumulate(polys, poly_order, lo, hi, moments) ==
  IF lo > hi THEN moments
  ELSE IF lo = hi THEN Accumulate3(moments, r2d_reduce(polys[lo], poly_order))
  ELSE LET mid == (lo + hi) \div 2
       IN  Accumulate3(FanAccumulate(polys, poly_order, lo, mid, moments),
                       FanAccumulate(polys, poly_order, mid + 1, hi, ZeroMoments(3)))

\* the moments the call returns, from the clipped copies of the source
MomentsOf(polys, trg_convex, coord_sys) ==
  LET poly_order == PolyOrder(coord_sys)
      nmoments == R2D_NUM_MOMENTS(poly_order)
      om == r2d_reduce(polys[1], poly_order)
  IN  IF trg_convex
      THEN IF coord_sys = CylindricalAxisymmetric THEN shift_moments_list(om) ELSE om
      ELSE FanAccumulate(polys, poly_order, 1, Len(polys), ZeroMoments(nmoments))

\* what a call of intersect_polys_r2d did: status is "returned" or "error"
\* (an exception left the function)
PolyResult(status, path, moments, c) ==
  [status |-> status, path |-> path, first_ok |-> c.first_ok, fallback |-> c.fallback,
   cen |-> c.cen, center_point_ok |-> c.center_point_ok, moments |-> moments]

(***************************************************************************)
(* The calls of intersect_polys_r2d that are explored.                     *)
(***************************************************************************)
Poly(xy) == Tuple([i \in 1..(Len(xy) \div 2) |-> IPt(xy[2 * i - 1], xy[2 * i])])

\* source polygons: none, two squares, a triangle, an L-shaped hexagon
SourcePolys ==
  { <<>>,
    Poly(<<0, 0, 2, 0, 2, 2, 0, 2>>),
    Poly(<<0, 0, 4, 0, 4, 4, 0, 4>>),
    Poly(<<1, 0, 4, 1, 2, 3>>),
    Poly(<<0, 0, 3, 0, 3, 1, 1, 1, 1, 3, 0, 3>>) }

\* convex targets: none and a square
ConvexTargetPolys ==
  { <<>>,
    Poly(<<1, 1, 3, 1, 3, 3, 1, 3>>) }

\* non-convex targets: a dart (its centroid sees every edge), an L (its
\* centroid does not, but the corner does), a U (no point sees every edge)
\* and a collapsed triangle of zero area
TrgDart == Poly(<<0, 0, 2, 1, 4, 0, 2, 4>>)
TrgEll == Poly(<<0, 0, 4, 0, 4, 1, 1, 1, 1, 4, 0, 4>>)
TrgU == Poly(<<0, 0, 3, 0, 3, 3, 2, 3, 2, 1, 1, 1, 1, 3, 0, 3>>)
TrgFlat == Poly(<<0, 0, 1, 0, 2, 0>>)
NonConvexTargetPolys == {TrgDart, TrgEll, TrgU, TrgFlat}

NoResult == PolyResult("none", "none", <<>>, NoCenter)

PolyIdle ==
  /\ in_source_poly = <<>>
  /\ in_target_poly = <<>>
  /\ in_trg_convex = TRUE
  /\ in_coord_sys = Cartesian
  /\ center = NoCenter
  /\ clipped = <<>>
  /\ result = NoResult
  /\ poly_pc = "idle"

\* the caller says trg_convex = true only of a convex target
PolyInputs ==
  /\ in_source_poly \in SourcePolys
  /\ in_target_poly \in ConvexTargetPolys \cup NonConvexTargetPolys
  /\ in_trg_convex \in (IF in_target_poly \in ConvexTargetPolys THEN BOOLEAN ELSE {FALSE})
  /\ in_coord_sys \in CoordSysTypes
  /\ center = NoCenter
  /\ clipped = <<>>
  /\ result = NoResult
  /\ poly_pc = "call"

\* intersect_polys_r2d(source_poly, target_poly, num_tols, trg_convex, coord_sys):
\* the early return, or the center point, the clipping and the moments.  The
\* std::runtime_error objects of the non-convex branch are constructed and
\* dropped, never thrown: the call always returns.
IntersectPolys ==
  /\ poly_pc = "call"
  /\ center' = IF EarlyReturn(in_source_poly, in_target_poly) \/ in_trg_convex
               THEN NoCenter
               ELSE CenterPoint(in_target_poly, PolyOrder(in_coord_sys))
  /\ clipped' = IF EarlyReturn(in_source_poly, in_target_poly)
                THEN <<>>
                ELSE ClippedPolys(in_source_poly, in_target_poly, in_trg_convex, center'.cen)
  /\ result' = IF EarlyReturn(in_source_poly, in_target_poly)
               THEN PolyResult("returned", "degenerate",
                               ZeroMoments(R2D_NUM_MOMENTS(PolyOrder(in_coord_sys))), NoCenter)
               ELSE PolyResult("returned", IF in_trg_convex THEN "convex" ELSE "nonconvex",
                               MomentsOf(clipped', in_trg_convex, in_coord_sys), center')
  /\ poly_pc' = "done"
  /\ UNCHANGED <<in_source_poly, in_target_poly, in_trg_convex, in_coord_sys>>
  /\ UNCHANGED dvars
  /\ UNCHANGED xvars

(***************************************************************************)
(* The remap in numbers: two meshes, the search, the intersection weights   *)
(* and the values an interpolation writes.  The search, the interpolators   *)
(* and the mesh wrappers are outside portage/driver and portage/intersect;  *)
(* they follow their documented contracts.  The weights are computed by     *)
(* intersect_polys_r2d.                                                     *)
(***************************************************************************)
\* intersect_polys_r2d as a function of its arguments: the moments it returns
intersect_polys_r2d(source_poly, target_poly, trg_convex, coord_sys) ==
  IF EarlyReturn(source_poly, target_poly)
  THEN ZeroMoments(R2D_NUM_MOMENTS(PolyOrder(coord_sys)))
  ELSE MomentsOf(ClippedPolys(source_poly, target_poly, trg_convex,
                              IF trg_convex THEN NoPoint
                              ELSE CenterPoint(target_poly, PolyOrder(coord_sys)).cen),
                 trg_convex, coord_sys)

\* a grid of rectangles, given by its breaks along x and along y; entity id
\* (from 1) is in column Col and row Row
Grid(xs, ys) == [xs |-> Tuple([i \in 1..Len(xs) |-> R(xs[i])]),
                 ys |-> Tuple([j \in 1..Len(ys) |-> R(ys[j])])]
NumX(g) == Len(g.xs) - 1
NumY(g) == Len(g.ys) - 1
NumEntities(g) == NumX(g) * NumY(g)
Col(g, id) == ((id - 1) % NumX(g)) + 1
Row(g, id) == ((id - 1) \div NumX(g)) + 1

\* the source mesh: 2 x 2 cells over [0,4] x [0,4]
SourceMesh == Grid(<<0, 2, 4>>, <<0, 2, 4>>)
\* a target mesh over the same domain: 2 x 3 cells, some inside one source
\* cell and touching others, some across two source cells
TargetMeshSameDomain == Grid(<<0, 1, 4>>, <<0, 2, 3, 4>>)
\* a target mesh over a strictly smaller domain, [0,3] x [0,4]
TargetMeshSmaller == Grid(<<0, 1, 3>>, <<0, 2, 3, 4>>)

RHalf(a, b) == RDiv(RAdd(a, b), R(2))
\* the breaks of the dual cells of the nodes at breaks b
DualBreaks(b) ==
  Tuple([i \in 1..(Len(b) + 1) |->
           IF i = 1 THEN b[1] ELSE IF i = Len(b) + 1 THEN b[Len(b)] ELSE RHalf(b[i - 1], b[i])])

\* the control volumes of the entities of kind k: the cells, or the dual
\* cells of the nodes
ControlVolumes(mesh, k) ==
  IF k = NODE THEN [xs |-> DualBreaks(mesh.xs), ys |-> DualBreaks(mesh.ys)] ELSE mesh

\* the vertex loop of control volume id, counter-clockwise
Rect(g, id) ==
  LET i == Col(g, id)
      j == Row(g, id)
  IN  <<Pt(g.xs[i], g.ys[j]), Pt(g.xs[i + 1], g.ys[j]),
        Pt(g.xs[i + 1], g.ys[j + 1]), Pt(g.xs[i], g.ys[j + 1])>>
\* its volume
RectArea(g, id) ==
  RMul(RSub(g.xs[Col(g, id) + 1], g.xs[Col(g, id)]),
       RSub(g.ys[Row(g, id) + 1], g.ys[Row(g, id)]))

\* the centroid of entity id of kind k: the centre of a cell, the position of
\* a node
EntityPoint(mesh, k, id) ==
  LET g == ControlVolumes(mesh, k)
      i == Col(g, id)
      j == Row(g, id)
  IN  IF k = NODE THEN Pt(mesh.xs[i], mesh.ys[j])
      ELSE Pt(RHalf(g.xs[i], g.xs[i + 1]), RHalf(g.ys[j], g.ys[j + 1]))

\* the centroids of all entities of kind k
EntityPoints(mesh, k) ==
  Tuple([id \in 1..NumEntities(ControlVolumes(mesh, k)) |-> EntityPoint(mesh, k, id)])

\* the control volumes and the centroids of the three meshes, per entity kind
SourceVolumes ==
  [CELL |-> ControlVolumes(SourceMesh, CELL), NODE |-> ControlVolumes(SourceMesh, NODE)]
SourcePoints ==
  [CELL |-> EntityPoints(SourceMesh, CELL), NODE |-> EntityPoints(SourceMesh, NODE)]
SameDomainVolumes ==
  [CELL |-> ControlVolumes(TargetMeshSameDomain, CELL),
   NODE |-> ControlVolumes(TargetMeshSameDomain, NODE)]
SameDomainPoints ==
  [CELL |-> EntityPoints(TargetMeshSameDomain, CELL),
   NODE |-> EntityPoints(TargetMeshSameDomain, NODE)]
SmallerVolumes ==
  [CELL |-> ControlVolumes(TargetMeshSmaller, CELL),
   NODE |-> ControlVolumes(TargetMeshSmaller, NODE)]
SmallerPoints ==
  [CELL |-> EntityPoints(TargetMeshSmaller, CELL),
   NODE |-> EntityPoints(TargetMeshSmaller, NODE)]
\* those of the target mesh, given whether the domains differ
TargetVolumes(dm) == IF dm THEN SmallerVolumes ELSE SameDomainVolumes
TargetPoints(dm) == IF dm THEN SmallerPoints ELSE SameDomainPoints

RLeq(a, b) == ~RGreater0(RSub(a, b))
\* the bounding boxes of source volume s and target volume t intersect
BoxesMeet(sg, s, tg, t) ==
  /\ RLeq(sg.xs[Col(sg, s)], tg.xs[Col(tg, t) + 1])
  /\ RLeq(tg.xs[Col(tg, t)], sg.xs[Col(sg, s) + 1])
  /\ RLeq(sg.ys[Row(sg, s)], tg.ys[Row(tg, t) + 1])
  /\ RLeq(tg.ys[Row(tg, t)], sg.ys[Row(sg, s) + 1])

\* search: for each target entity, the source entities whose bounding box
\* intersects its own (a superset of the overlapping ones)
SearchCandidates(sg, tg) ==
  Tuple([t \in 1..NumEntities(tg) |->
           LET Meets(s) == BoxesMeet(sg, s, tg, t)
           IN  SelectSeq(Tuple([s \in 1..NumEntities(sg) |-> s]), Meets)])

\* intersect_meshes: for each target entity, an (entityID, weights) entry per
\* candidate, the weights being the moments of the intersection
IntersectedWeights(sg, tg, candidates) ==
  Tuple([t \in 1..NumEntities(tg) |->
           Tuple([c \in 1..Len(candidates[t]) |->
                    [entityID |-> candidates[t][c],
                     weights |-> intersect_polys_r2d(Rect(sg, candidates[t][c]), Rect(tg, t),
                                                     TRUE, Cartesian)]])])

\* the weights of kind k between the source mesh and a target mesh
WeightsBetween(sg, tg) == IntersectedWeights(sg, tg, SearchCandidates(sg, tg))
CellWeightsSameDomain == WeightsBetween(SourceVolumes[CELL], SameDomainVolumes[CELL])
NodeWeightsSameDomain == WeightsBetween(SourceVolumes[NODE], SameDomainVolumes[NODE])
CellWeightsSmaller == WeightsBetween(SourceVolumes[CELL], SmallerVolumes[CELL])
NodeWeightsSmaller == WeightsBetween(SourceVolumes[NODE], SmallerVolumes[NODE])

\* the numbers behind the weights of kind k of the searched candidates
NumericWeights(k, dm) ==
  IF k = NODE THEN (IF dm THEN NodeWeightsSmaller ELSE NodeWeightsSameDomain)
  ELSE (IF dm THEN CellWeightsSmaller ELSE CellWeightsSameDomain)

\* the sum of a sequence of numbers
RECURSIVE RSumTo(_, _)
RSumTo(s, n) == IF n = 0 THEN Zero ELSE RAdd(RSumTo(s, n - 1), s[n])
RSum(s) == RSumTo(Tuple(s), Len(s))
RMin(a, b) == IF RLess0(RSub(b, a)) THEN b ELSE a
RMax(a, b) == IF RLess0(RSub(a, b)) THEN b ELSE a

\* source fields: constant, linear in the centroid, or 1 on one entity and 0
\* on the others (every field is a combination of these)
ConstantField(c) == [shape |-> "constant", a |-> Zero, b |-> Zero, c |-> c, at |-> 0]
LinearField(a, b, c) == [shape |-> "linear", a |-> R(a), b |-> R(b), c |-> R(c), at |-> 0]
UnitField(id) == [shape |-> "unit", a |-> Zero, b |-> Zero, c |-> Zero, at |-> id]
\* a x + b y + c
ValueAt(f, p) == RAdd(RAdd(RMul(f.a, p.x), RMul(f.b, p.y)), f.c)
\* the values of field f on the source entities of kind k
FieldValues(f, k) ==
  Tuple([id \in 1..NumEntities(SourceVolumes[k]) |->
           IF f.shape = "unit" THEN (IF id = f.at THEN R(1) ELSE Zero)
           ELSE ValueAt(f, SourcePoints[k][id])])

\* the fields held by the cell variables and by the node variable
CellFields ==
  <<UnitField(1), UnitField(2), UnitField(3), UnitField(4),
    ConstantField(Frac(5, 4)), LinearField(1, 1, 0), LinearField(2, -1, 3),
    ConstantField(Frac(-183, 2)), UnitField(1), ConstantField(Frac(5, 4)),
    LinearField(1, 1, 0), LinearField(2, -1, 3)>>
NodeFields ==
  <<UnitField(1), UnitField(2), UnitField(3), UnitField(4),
    UnitField(5), UnitField(6), UnitField(7),
    UnitField(8), UnitField(9), ConstantField(Frac(157, 50)),
    LinearField(1, 1, 0), LinearField(-1, 3, 2)>>
SourceData(n) ==
  [v \in names |-> FieldValues(IF get_entity[v] = NODE THEN NodeFields[n] ELSE CellFields[n],
                               get_entity[v])]
SourceStates == {SourceData(n) : n \in 1..Len(CellFields)}
\* a source state whose numbers are not looked at
NoSourceData == [v \in names |-> <<>>]

\* the entities next to entity id (sharing a node or a cell with it), and
\* whether it lies on the boundary of the mesh
Neighbours(g, id) ==
  LET Near(o) == /\ o # id
                 /\ Abs(Col(g, o) - Col(g, id)) <= 1
                 /\ Abs(Row(g, o) - Row(g, id)) <= 1
  IN  SelectSeq(Tuple([o \in 1..NumEntities(g) |-> o]), Near)
OnBoundary(g, id) == Col(g, id) \in {1, NumX(g)} \/ Row(g, id) \in {1, NumY(g)}

\* the least-squares gradient of the values at entity id of kind k
LeastSquaresGradient(k, vals, id) ==
  LET nb == Neighbours(SourceVolumes[k], id)
      p == SourcePoints[k][id]
      dx == Tuple([i \in 1..Len(nb) |-> RSub(SourcePoints[k][nb[i]].x, p.x)])
      dy == Tuple([i \in 1..Len(nb) |-> RSub(SourcePoints[k][nb[i]].y, p.y)])
      dv == Tuple([i \in 1..Len(nb) |-> RSub(vals[nb[i]], vals[id])])
      a11 == RSum([i \in 1..Len(nb) |-> RMul(dx[i], dx[i])])
      a12 == RSum([i \in 1..Len(nb) |-> RMul(dx[i], dy[i])])
      a22 == RSum([i \in 1..Len(nb) |-> RMul(dy[i], dy[i])])
      b1 == RSum([i \in 1..Len(nb) |-> RMul(dx[i], dv[i])])
      b2 == RSum([i \in 1..Len(nb) |-> RMul(dy[i], dv[i])])
      det == RSub(RMul(a11, a22), RMul(a12, a12))
  IN  Pt(RDiv(RSub(RMul(a22, b1), RMul(a12, b2)), det),
         RDiv(RSub(RMul(a11, b2), RMul(a12, b1)), det))

\* the largest coefficient in [0,1] that keeps the reconstruction at the
\* vertices of the control volume within the values of the neighbourhood
BarthJespersen(k, vals, id, grad) ==
  LET g == SourceVolumes[k]
      nb == Neighbours(g, id)
      p == SourcePoints[k][id]
      RECURSIVE Lo(_), Hi(_), Phi(_)
      Lo(n) == IF n = 0 THEN vals[id] ELSE RMin(Lo(n - 1), vals[nb[n]])
      Hi(n) == IF n = 0 THEN vals[id] ELSE RMax(Hi(n - 1), vals[nb[n]])
      Diff(q) == RAdd(RMul(grad.x, RSub(q.x, p.x)), RMul(grad.y, RSub(q.y, p.y)))
      At(q) == IF RGreater0(Diff(q)) THEN RMin(R(1), RDiv(RSub(Hi(Len(nb)), vals[id]), Diff(q)))
               ELSE IF RLess0(Diff(q)) THEN RMin(R(1), RDiv(RSub(Lo(Len(nb)), vals[id]), Diff(q)))
               ELSE R(1)
      Phi(n) == IF n = 0 THEN R(1) ELSE RMin(Phi(n - 1), At(Rect(g, id)[n]))
  IN  Phi(4)

\* the coefficient a limiter gives the gradient at entity id
LimiterCoefficient(k, vals, id, grad, limiter) ==
  IF limiter \in {"NOLIMITER", "BND_NOLIMITER"} THEN R(1)
  ELSE IF limiter = "BND_ZERO_GRADIENT" THEN Zero
  ELSE BarthJespersen(k, vals, id, grad)

\* compute_source_gradient: the limited gradient at every source entity; the
\* boundary limiter applies to the entities on the boundary
LimitedGradients(k, vals, limiter, bnd_limiter) ==
  Tuple([id \in 1..Len(vals) |->
           LET grad == LeastSquaresGradient(k, vals, id)
               phi == LimiterCoefficient(k, vals, id, grad,
                                         IF OnBoundary(SourceVolumes[k], id)
                                         THEN bnd_limiter ELSE limiter)
           IN  PScale(phi, grad)])
NoGradients(vals) == Tuple([id \in 1..Len(vals) |-> Pt(Zero, Zero)])

\* what one (entityID, weights) entry adds to the value of a target entity:
\* at order 1 the source value times the volume of the intersection; at order
\* 2 the integral over the intersection of the linear reconstruction, i.e.
\* (value + gradient . (centroid of the intersection - source centroid))
\* times the volume, written with the first moments
Contribution(k, vals, grads, entry, order) ==
  LET s == entry.entityID
      w == entry.weights
      p == SourcePoints[k][s]
  IN  IF order = 1 THEN RMul(vals[s], w[1])
      ELSE RAdd(RMul(vals[s], w[1]),
                RAdd(RMul(grads[s].x, RSub(w[2], RMul(w[1], p.x))),
                     RMul(grads[s].y, RSub(w[3], RMul(w[1], p.y)))))

\* the value of one target entity: the contributions over the volume covered
InterpolateEntity(k, vals, grads, entries, order) ==
  RDiv(RSum([c \in 1..Len(entries) |-> Contribution(k, vals, grads, entries[c], order)]),
       RSum([c \in 1..Len(entries) |-> entries[c].weights[1]]))

\* Interpolate::operator() over the target entities
InterpolateAll(k, vals, grads, wts, order) ==
  Tuple([t \in 1..Len(wts) |-> InterpolateEntity(k, vals, grads, wts[t], order)])

\* a target field the numbers are defined for: a mesh variable interpolated
\* on its own kind with the weights of the searched candidates
Numeric(rec) ==
  /\ rec.src \in names
  /\ field_type[rec.src] = MESH_FIELD
  /\ rec.kind = get_entity[rec.src]
  /\ rec.w \in MeshWeightsFor(rec.kind)
  /\ rec.w # EmptyWeights
  /\ Len(source_state_[rec.src]) > 0

\* the values the interpolation wrote to a target field (before any repair)
InterpolatedValues(rec) ==
  LET vals == source_state_[rec.src]
  IN  InterpolateAll(rec.kind, vals,
                     IF rec.grad = NoGradient THEN NoGradients(vals)
                     ELSE LimitedGradients(rec.kind, source_state_[rec.grad.src],
                                           rec.grad.limiter, rec.grad.bnd_limiter),
                     NumericWeights(rec.kind, domain_mismatch), rec.order)

\* the integral of a field over a grid of control volumes
Integral(vals, g) == RSum([id \in 1..Len(vals) |-> RMul(vals[id], RectArea(g, id))])
SourceIntegral(rec) == Integral(source_state_[rec.src], SourceVolumes[rec.kind])
TargetIntegral(rec) ==
  Integral(InterpolatedValues(rec), TargetVolumes(domain_mismatch)[rec.kind])

(***************************************************************************)
(* momentumapp2D: main() run by the numpe processes of one MPI job.  The   *)
(* command line is the same for every process; the processes differ in     *)
(* their rank.                                                             *)
(***************************************************************************)
\* method: SGH=1, CCH=2
SGH == 1
CCH == 2
\* the largest job explored
MaxProcs == 2

\* what rank 0 prints
USAGE == "usage"
INPUT_ERROR == "=== Input ERROR ==="
SERIAL_ONLY == "method=SGH runs only in the serial mode"

\* the file rank 0 saves: "errors2D_" << method - 1 << ".txt"
ErrorsFile(method) == IF method = SGH THEN "errors2D_0.txt" ELSE "errors2D_1.txt"

\* argc (the program name and the arguments given), atoi(argv[3]), whether
\* user_field_t::initialize accepts each of the three formulas, and the
\* number of processes
AppInputs ==
  [argc : {1, 7, 8, 9}, method : {0, SGH, CCH, 3}, formula_ok : [1..3 -> BOOLEAN],
   numpe : 1..MaxProcs]

\* no job is running
AppIdle == [pc |-> <<>>]

\* the job when main() is entered on each of its processes
AppStart(in) ==
  [argc |-> in.argc, method |-> in.method, formula_ok |-> in.formula_ok, numpe |-> in.numpe,
   pc |-> [r \in 0..(in.numpe - 1) |-> "main"],
   mpi_init |-> [r \in 0..(in.numpe - 1) |-> 0],
   mpi_finalize |-> [r \in 0..(in.numpe - 1) |-> 0],
   out |-> [r \in 0..(in.numpe - 1) |-> <<>>],
   remaps |-> [r \in 0..(in.numpe - 1) |-> 0],
   files |-> {}]

Ranks == DOMAIN app.pc

\* a step of main changes nothing but the job
AppOnly == UNCHANGED <<dvars, pvars, fixup, tasks>>

\* if (rank == 0) std::cout << ...
Printed(r, lines) == IF r = 0 THEN app.out[r] \o lines ELSE app.out[r]

\* MPI_Finalize(); return 0;
FinalizeAndReturn(a, r) ==
  [a EXCEPT !.mpi_finalize[r] = @ + 1, !.pc[r] = "returned"]

\* MPI_Initialized, MPI_Init, MPI_Comm_size, MPI_Comm_rank
AppMpiInit(r) ==
  /\ app.pc[r] = "main"
  /\ app' = [app EXCEPT !.mpi_init[r] = @ + 1, !.pc[r] = "args"]
  /\ AppOnly

\* if (argc < 8) { usage; MPI_Finalize(); return 0; }
AppCheckArgs(r) ==
  /\ app.pc[r] = "args"
  /\ app' = IF app.argc < 8
            THEN FinalizeAndReturn([app EXCEPT !.out[r] = Printed(r, <<USAGE>>)], r)
            ELSE [app EXCEPT !.pc[r] = "validate"]
  /\ AppOnly

\* the method and the three formulas: atoi, user_field_t::initialize
AppValidate(r) ==
  /\ app.pc[r] = "validate"
  /\ app' = IF \/ (app.method # SGH /\ app.method # CCH)
               \/ ~app.formula_ok[1]
               \/ ~app.formula_ok[2]
               \/ ~app.formula_ok[3]
            THEN FinalizeAndReturn(
                   [app EXCEPT !.out[r] = Printed(r, <<INPUT_ERROR, USAGE>>)], r)
            ELSE [app EXCEPT !.pc[r] = "serial_check"]
  /\ AppOnly

\* main without the test of numpe for SGH: what C30 must tell apart
AppSerialCheck_Skipped(r) ==
  /\ app.pc[r] = "serial_check"
  /\ app' = [app EXCEPT !.pc[r] = "setup"]
  /\ AppOnly

\* if (numpe > 1 && method == SGH) { error; MPI_Finalize(); return 0; }
AppSerialCheck(r) ==
  /\ app.pc[r] = "serial_check"
  /\ app' = IF app.numpe > 1 /\ app.method = SGH
            THEN FinalizeAndReturn(
                   [app EXCEPT !.out[r] = Printed(r, <<INPUT_ERROR, SERIAL_ONLY>>)], r)
            ELSE [app EXCEPT !.pc[r] = "setup"]
  /\ AppOnly

\* meshes, states, fields, and the summary of the source data
AppSetup(r) ==
  /\ app.pc[r] = "setup"
  /\ app' = [app EXCEPT !.out[r] = Printed(r, <<"=== SOURCE data ===">>), !.pc[r] = "remap"]
  /\ AppOnly

\* mr.RemapND(...): returns, or an exception leaves main
AppRemap(r) ==
  /\ app.pc[r] = "remap"
  /\ \E throws \in BOOLEAN :
       app' = [app EXCEPT !.remaps[r] = @ + 1,
                          !.pc[r] = IF throws THEN "terminated" ELSE "verify"]
  /\ AppOnly

\* totals on the target, conservation error, remap error
AppVerify(r) ==
  /\ app.pc[r] = "verify"
  /\ app' = [app EXCEPT !.out[r] = Printed(r, <<"=== TARGET data ===",
                                               "=== Conservation error ===",
                                               "=== Remap error ===">>),
                        !.pc[r] = "save"]
  /\ AppOnly

\* save data (rank 0), MPI_Finalize(); return 0;
AppSave(r) ==
  /\ app.pc[r] = "save"
  /\ app' = FinalizeAndReturn(
              [app EXCEPT !.files = IF r = 0 THEN @ \cup {ErrorsFile(app.method)} ELSE @], r)
  /\ AppOnly

AppInit == \E in \in AppInputs : app = AppStart(in)

AppNext ==
  \/ \E r \in Ranks : AppMpiInit(r)
  \/ \E r \in Ranks : AppCheckArgs(r)
  \/ \E r \in Ranks : AppValidate(r)
  \/ \E r \in Ranks : AppSerialCheck(r)
  \/ \E r \in Ranks : AppSetup(r)
  \/ \E r \in Ranks : AppRemap(r)
  \/ \E r \in Ranks : AppVerify(r)
  \/ \E r \in Ranks : AppSave(r)

(***************************************************************************)
(* Mismatch repair of one target field (CoreDriver::fix_mismatch, outside  *)
(* portage/driver): the values are shifted towards the source integral,    *)
(* each clamped to [lower_bound, upper_bound], until the relative          *)
(* conservation error is within conservation_tol or max_fixup_iter         *)
(* iterations were made.                                                   *)
(***************************************************************************)
\* the largest iteration budget explored
MaxFixupIter == 3

\* control volumes of the target entities of the repaired field
FixupVolumes == <<R(1), R(1), R(2)>>

RAbs(a) == [n |-> Abs(a.n), d |-> a.d]

\* the target field handed to the repair, the integral of the source field
\* and the arguments of the interpolate call
FixupInputs ==
  [vals : [1..Len(FixupVolumes) -> {0, 2}], source_integral : {4, 9, 13},
   lower_bound : {0}, upper_bound : {3}, conservation_tol : {Zero, Frac(1, 4)},
   max_fixup_iter : 0..MaxFixupIter]

\* no repair is running
FixupIdle == [pc |-> "idle"]

\* fix_mismatch is entered
FixupStart(in) ==
  [pc |-> "fix_mismatch",
   vals |-> Tuple([i \in 1..Len(FixupVolumes) |-> R(in.vals[i])]),
   source_integral |-> R(in.source_integral),
   lower_bound |-> R(in.lower_bound), upper_bound |-> R(in.upper_bound),
   conservation_tol |-> in.conservation_tol, max_fixup_iter |-> in.max_fixup_iter,
   iter |-> 0, converged |-> FALSE, reported |-> FALSE, outcome |-> "-", later |-> 0]

\* target integral - source integral
GlobalDiff(f) ==
  RSub(RSum([i \in 1..Len(f.vals) |-> RMul(f.vals[i], FixupVolumes[i])]), f.source_integral)

\* the relative global conservation error is within conservation_tol
WithinTol(f) ==
  RLeq(RAbs(GlobalDiff(f)), RMul(f.conservation_tol, RAbs(f.source_integral)))

\* the entities whose value can still move against the imbalance
Adjustable(f) ==
  {i \in 1..Len(f.vals) :
     IF RGreater0(GlobalDiff(f)) THEN RGreater0(RSub(f.vals[i], f.lower_bound))
     ELSE RGreater0(RSub(f.upper_bound, f.vals[i]))}

\* one iteration: the imbalance is spread over the adjustable entities and
\* every value is clamped to [lower_bound, upper_bound]
Shifted(f) ==
  LET adj == Adjustable(f)
      volume == RSum([i \in 1..Len(f.vals) |-> IF i \in adj THEN FixupVolumes[i] ELSE Zero])
      udiff == RDiv(GlobalDiff(f), volume)
  IN  Tuple([i \in 1..Len(f.vals) |->
               IF i \in adj
               THEN RMax(f.lower_bound, RMin(f.upper_bound, RSub(f.vals[i], udiff)))
               ELSE f.vals[i]])

\* a loop that makes one iteration more than the budget: what C21 must tell
\* apart
FixupContinues_OneMore(f) == ~WithinTol(f) /\ f.iter <= f.max_fixup_iter

\* while (the error is outside the tolerance && iter < max_fixup_iter)
FixupContinues(f) == ~WithinTol(f) /\ f.iter < f.max_fixup_iter

\* the states the loop passes through, by the number of iterations made
RECURSIVE FixupAfter(_)
FixupAfter(n) ==
  IF n = 0 THEN {FixupStart(in) : in \in FixupInputs}
  ELSE {[f EXCEPT !.vals = Shifted(f), !.iter = @ + 1] :
          f \in {g \in FixupAfter(n - 1) : FixupContinues(g)}}

\* the loop test, the error test and the shifted values of each of these
\* states, computed once (the fairness condition of the repair has the
\* guards of its actions evaluated over and over)
FixupTable ==
  [f \in UNION {FixupAfter(n) : n \in 0..(MaxFixupIter + 1)} |->
     [continues |-> FixupContinues(f), within |-> WithinTol(f), shifted |-> Shifted(f)]]

\* a step of the repair changes nothing but the repair
FixupOnly == UNCHANGED <<dvars, pvars, app, tasks>>

\* one iteration of the repair
FixupIterate ==
  /\ fixup.pc = "fix_mismatch"
  /\ FixupTable[fixup].continues
  /\ fixup' = [fixup EXCEPT !.vals = FixupTable[fixup].shifted, !.iter = @ + 1]
  /\ FixupOnly

\* the loop is left: the residual imbalance is reported if the error is
\* still outside the tolerance, and fix_mismatch returns
FixupReturn ==
  /\ fixup.pc = "fix_mismatch"
  /\ ~FixupTable[fixup].continues
  /\ fixup' = [fixup EXCEPT !.pc = "returned",
                            !.converged = FixupTable[fixup].within,
                            !.reported = ~FixupTable[fixup].within,
                            !.outcome = OK]
  /\ FixupOnly

\* interpolate_mesh_var drops what fix_mismatch returned; the caller goes on
\* to the next variable
FixupNextVariable ==
  /\ fixup.pc = "returned"
  /\ fixup.later = 0
  /\ fixup' = [fixup EXCEPT !.later = 1]
  /\ FixupOnly

FixupInit == \E in \in FixupInputs : fixup = FixupStart(in)

FixupNext == FixupIterate \/ FixupReturn \/ FixupNextVariable


\* no interpolation is followed task by task
TasksIdle == [pc |-> <<>>]

\* nothing but the driver is running
OthersIdle == app = AppIdle /\ fixup = FixupIdle /\ tasks = TasksIdle

(***************************************************************************)
(* The calls of a remap that are explored: the weights, then variables      *)
(* interpolated at order 1 or 2 on the kind they live on.                  *)
(***************************************************************************)
\* the mesh variables
RemapVars == {v \in names : field_type[v] = MESH_FIELD}
\* the limiters of an order-2 call: none, or a monotone one
RemapLimiters == {<<"NOLIMITER", "BND_NOLIMITER">>, <<"BARTH_JESPERSEN", "BND_ZERO_GRADIENT">>}
RemapArgs(order) ==
  {[a EXCEPT !.limiter = l[1], !.bnd_limiter = l[2]] :
     a \in Args, l \in (IF order = 2 THEN RemapLimiters ELSE {<<"NOLIMITER", "BND_NOLIMITER">>})}

\* a driver for the mesh variables in a debug build, over matching or
\* mismatched domains, with numbers in the source state
RemapInit ==
  /\ \E dm \in BOOLEAN : DriverInitWith(FALSE, FALSE, dm, GivenList(RemapVars))
  /\ source_state_ \in SourceStates
  /\ PolyIdle
  /\ OthersIdle

RemapWeights ==
  /\ alive
  /\ ncalls < RemapCalls
  /\ LET r == ComputeInterpolationWeightsOp(Cur)
     IN  Commit(r, Call("compute_interpolation_weights", "-", "-", "-", 0, EmptyWeights,
                        NoArgs, r.outcome, r.events))

RemapInterpolate ==
  /\ alive
  /\ ncalls < RemapCalls
  /\ \E src \in RemapVars, order \in {1, 2}, same \in BOOLEAN :
     \E a \in RemapArgs(order), hm \in HasMismatchAnswers(get_entity[src], src) :
       LET k == get_entity[src]
           r == IF same THEN InterpolateSameNameOp(Cur, k, src, a, order, hm)
                ELSE InterpolateOp(Cur, k, src, OtherTrgName, a, order, hm)
       IN  Commit(r, Call("interpolate", k, src, IF same THEN src ELSE OtherTrgName,
                          order, EmptyWeights, a, r.outcome, r.events))

RemapNext == RemapWeights \/ RemapInterpolate

(***************************************************************************)
(* One interpolation call as the core driver runs it (outside              *)
(* portage/driver): one task per target entity, scheduled in any order.    *)
(* A task reads the source field, the gradients and the weights of its     *)
(* entity and writes the slot of its entity in the target field.           *)
(***************************************************************************)
\* the variables whose interpolation is followed task by task
TaskVars == {v \in RemapVars : get_entity[v] = CELL}

\* the source fields of these runs: the two linear ones of CellFields
TaskFields == {n \in 1..Len(CellFields) : CellFields[n].shape = "linear"}

\* the weights of the cells, as intersect_meshes left them
TaskWeights(dm) == IF dm THEN CellWeightsSmaller ELSE CellWeightsSameDomain

\* the gradients the tasks of a call read: none at order 1, and at order 2
\* the unlimited least-squares gradient, which is the slope of a linear field
TaskGradients(f, vals, order) ==
  IF order = 2 THEN Tuple([id \in 1..Len(vals) |-> Pt(f.a, f.b)])
  ELSE NoGradients(vals)

\* the slot of the target field that the task of entity t writes, when two
\* tasks are given the same slot: what C22 must tell apart
TargetSlot_Shared(t) == IF t = 2 THEN 1 ELSE t

\* the slot of the target field that the task of entity t writes
TargetSlot(t) == t

\* the call is entered: the gradients of source field f are there, no task
\* has run, no slot is written
TasksStart(src, order, f, dm) ==
  [src |-> src, kind |-> CELL, order |-> order,
   gradients |-> TaskGradients(CellFields[f], source_state_[src], order),
   weights |-> TaskWeights(dm),
   pc |-> [t \in 1..NumEntities(TargetVolumes(dm)[CELL]) |-> "ready"],
   value |-> [t \in 1..NumEntities(TargetVolumes(dm)[CELL]) |-> NaN],
   field |-> [t \in 1..NumEntities(TargetVolumes(dm)[CELL]) |-> NaN],
   writes |-> [t \in 1..NumEntities(TargetVolumes(dm)[CELL]) |-> 0],
   writers |-> [t \in 1..NumEntities(TargetVolumes(dm)[CELL]) |-> {}],
   source_before |-> source_state_,
   weights_before |-> source_weights_]

\* a step of a task changes nothing but the interpolation
TasksOnly == UNCHANGED <<dvars, pvars, app, fixup>>

\* the task of target entity t computes its value from the source field, the
\* gradients and the weights of t
TaskCompute(t) ==
  /\ tasks.pc[t] = "ready"
  /\ tasks' = [tasks EXCEPT
                 !.value[t] = InterpolateEntity(tasks.kind, source_state_[tasks.src],
                                                tasks.gradients, tasks.weights[t],
                                                tasks.order),
                 !.pc[t] = "computed"]
  /\ TasksOnly

\* the task of target entity t writes its slot
TaskWrite(t) ==
  /\ tasks.pc[t] = "computed"
  /\ tasks' = [tasks EXCEPT !.field[TargetSlot(t)] = tasks.value[t],
                            !.writes[TargetSlot(t)] = @ + 1,
                            !.writers[TargetSlot(t)] = @ \cup {t},
                            !.pc[t] = "done"]
  /\ TasksOnly

TasksInit ==
  /\ \E dm \in BOOLEAN : DriverInitWith(FALSE, FALSE, dm, GivenList(RemapVars))
  /\ \E f \in TaskFields :
       /\ source_state_ = SourceData(f)
       /\ \E src \in TaskVars, order \in {1, 2} :
            tasks = TasksStart(src, order, f, domain_mismatch)

TasksNext ==
  \/ \E t \in DOMAIN tasks.pc : TaskCompute(t)
  \/ \E t \in DOMAIN tasks.pc : TaskWrite(t)

(***************************************************************************)
(* Specifications.                                                         *)
(***************************************************************************)
\* the driver under every sequence of public calls
Init == DriverInit /\ source_state_ = NoSourceData /\ PolyIdle /\ OthersIdle
Next == DriverNext
Spec == Init /\ [][Next]_vars

\* a driver that is constructed and not called
DriverIdle ==
  /\ DriverInitWith(FALSE, FALSE, FALSE, GivenList(names))
  /\ source_state_ = NoSourceData

\* intersect_polys_r2d on every input of the catalogue
PolyInit ==
  /\ PolyInputs
  /\ DriverIdle
  /\ OthersIdle
PolyNext == IntersectPolys
SpecPoly == PolyInit /\ [][PolyNext]_vars

\* the remap of the mesh variables, in numbers
SpecRemap == RemapInit /\ [][RemapNext]_vars

\* one interpolation call under every schedule of its per-entity tasks
InitTasks == TasksInit /\ PolyIdle /\ app = AppIdle /\ fixup = FixupIdle
SpecTasks == InitTasks /\ [][TasksNext]_vars

\* the mismatch repair on every input; the loop is sequential code that
\* runs until it returns
InitFixup == FixupInit /\ DriverIdle /\ PolyIdle /\ app = AppIdle /\ tasks = TasksIdle
SpecFixup == InitFixup /\ [][FixupNext]_vars /\ WF_vars(FixupIterate \/ FixupReturn)

\* momentumapp2D on every command line, as a job of one or more processes
InitApp == AppInit /\ DriverIdle /\ PolyIdle /\ fixup = FixupIdle /\ tasks = TasksIdle
SpecApp == InitApp /\ [][AppNext]_vars

(***************************************************************************)
(* Properties of the driver.                                               *)
(***************************************************************************)
InterpolateOps == {"interpolate", "interpolate_mesh_var", "interpolate_mat_var"}
Failed(outcome) == outcome \in {RUNTIME_ERROR, ASSERT_ABORT}
\* the positions of the calls named c in the last public call
EventsOf(c) == {i \in 1..Len(last.events) : last.events[i].call = c}
\* the core-driver calls that compute a gradient or write target values
DispatchCalls == {"compute_source_gradient", "cache_multimat_gradient_stencils",
                  "interpolate_mesh_var", "interpolate_mat_var", "fix_mismatch"}
Dispatched == \E i \in 1..Len(last.events) : last.events[i].call \in DispatchCalls

\* C1: an interpolate<K> call made while mesh_intersection_completed_[K] is
\* false fails with an error and dispatches nothing to the core driver, in
\* every build configuration.
C1_InterpolateBeforeIntersectionFails ==
  (last.op = "interpolate" /\ get_entity[last.src] = last.kind
   /\ ~mesh_intersection_completed_[last.kind])
    => (Failed(last.outcome) /\ ~Dispatched)

\* C3: an intersection is never completed for a kind (or for the materials)
\* whose search has not run: mesh_intersection_completed_[K] implies
\* search_completed_[K], and an intersect call made before the search fails.
C3_IntersectedOnlyAfterSearched ==
  /\ \A k \in Kinds : mesh_intersection_completed_[k] => search_completed_[k]
  /\ mat_intersection_completed_ => search_completed_[CELL]
  /\ (last.op \in {"intersect_meshes", "intersect_materials"}
      /\ driver_exists(last.kind) /\ ~search_completed_[last.kind])
       => Failed(last.outcome)

\* C4: in each of interpolate, interpolate_mesh_var and interpolate_mat_var a
\* variable that is not in source_vars_to_remap_ makes the call fail, before
\* any gradient is computed and before any target value is written.
C4_UnregisteredVariableFails ==
  [][(ncalls' = ncalls + 1 /\ last'.op \in InterpolateOps
      /\ last'.src \notin source_vars_to_remap_)
     => (/\ Failed(last'.outcome)
         /\ last'.events = <<>>
         /\ target_state_' = target_state_)]_vars

C4_Witness ==
  /\ last.op \in InterpolateOps
  /\ last.src \notin source_vars_to_remap_
  /\ last.outcome = RUNTIME_ERROR
  /\ ndebug

\* C5: interpolating a MULTIMATERIAL_FIELD variable in a build without the
\* interface reconstructor (no PORTAGE_HAS_TANGRAM) fails; the call never
\* returns normally.
C5_MultiMaterialWithoutTangramFails ==
  (last.op \in {"interpolate", "interpolate_mat_var"}
   /\ get_entity[last.src] = last.kind
   /\ field_type[last.src] = MULTIMATERIAL_FIELD /\ ~has_tangram)
    => Failed(last.outcome)

\* C6: once the intersection of kind K (resp. of the materials) has
\* completed, an interpolate call on K uses exactly the weights that
\* intersection returned, however the intersection was run.
C6_InterpolateUsesIntersectionWeights ==
  last.op = "interpolate" =>
    /\ \A i \in EventsOf("interpolate_mesh_var") :
         mesh_intersection_completed_[last.events[i].kind]
           => last.events[i].w = intersection_result[last.events[i].kind]
    /\ \A i \in EventsOf("interpolate_mat_var") :
         mat_intersection_completed_
           => last.events[i].w = mat_intersection_result

\* C7: whenever an interpolate call consults has_mismatch() for kind K,
\* check_mismatch has already run for K (the mismatch state is cached).
C7_MismatchCachedBeforeConsulted ==
  last.op = "interpolate" =>
    \A i \in EventsOf("has_mismatch") : core_mismatch[last.events[i].kind] # "unchecked"

\* an interpolation event at position i is followed by the repair of the same
\* variable with the arguments of the public call
RepairedAfter(i) ==
  \E j \in EventsOf("fix_mismatch") :
    /\ j > i
    /\ last.events[j].kind = last.events[i].kind
    /\ last.events[j].src = last.events[i].src
    /\ last.events[j].trg = last.events[i].trg
    /\ last.events[j].args = last.args

C11_FailingCallChangesNothing ==
  [][(ncalls' = ncalls + 1 /\ Failed(last'.outcome))
     => (/\ target_state_' = target_state_
         /\ source_weights_' = source_weights_
         /\ source_weights_by_mat_' = source_weights_by_mat_
         /\ search_completed_' = search_completed_
         /\ mesh_intersection_completed_' = mesh_intersection_completed_
         /\ mat_intersection_completed_' = mat_intersection_completed_)]_vars

\* C12: search<K>, intersect_meshes<K> and interpolate_mesh_var<K> all fail
\* for a kind K other than CELL and NODE; none of them returns normally.
C12_UnsupportedKindFails ==
  (last.op \in {"search", "intersect_meshes", "interpolate_mesh_var"}
   /\ last.kind \notin {CELL, NODE})
    => Failed(last.outcome)

\* the core-driver calls of the last public call that read a source field or
\* write a target field
NamedEvents == {i \in 1..Len(last.events) : last.events[i].src # "-"}

\* C17: an interpolate call reads the source field srcvarname only and
\* modifies the target field trgvarname only, where trgvarname is srcvarname
\* for the one-name overload; a target field that carries the source name is
\* left as it was when another target name is given.
C17_OnlyNamedTargetModified ==
  [][(ncalls' = ncalls + 1 /\ last'.op = "interpolate")
     => (/\ \A t \in TrgNames \ {last'.trg} : target_state_'[t] = target_state_[t]
         /\ \A i \in 1..Len(last'.events) :
              /\ last'.events[i].src \in {"-", last'.src}
              /\ last'.events[i].trg \in {"-", last'.trg}
         /\ (\E i \in 1..Len(last'.events) :
               last'.events[i].call \in {"interpolate_mesh_var", "interpolate_mat_var"})
              => target_state_'[last'.trg].src = last'.src)]_vars

C17_Witness ==
  /\ last.op = "interpolate"
  /\ last.outcome = OK
  /\ last.trg = OtherTrgName
  /\ last.src # last.trg
  /\ target_state_[last.trg].src = last.src
  /\ target_state_[last.src] = Unset
  /\ NamedEvents # {}

\* C18: the variables to remap are source_state.names() when the constructor
\* is given no list and exactly the list when it is given one; remap_kind_[K]
\* is true iff a registered variable lives on K, and
\* have_multi_material_fields_ iff a registered variable is multi-material.
C18_RegistrationAtConstruction ==
  /\ source_vars_to_remap.given => source_vars_to_remap_ = source_vars_to_remap.list
  /\ ~source_vars_to_remap.given => source_vars_to_remap_ = names
  /\ \A k \in Kinds :
       remap_kind_[k] <=> (\E v \in names : v \in source_vars_to_remap_ /\ get_entity[v] = k)
  /\ have_multi_material_fields_
       <=> (\E v \in names : v \in source_vars_to_remap_ /\ field_type[v] = MULTIMATERIAL_FIELD)

C18_Witness ==
  /\ ~source_vars_to_remap.given
  /\ source_vars_to_remap_ = names
  /\ remap_kind_[CELL] /\ remap_kind_[NODE] /\ ~remap_kind_[FACE]
  /\ have_multi_material_fields_
  /\ ncalls > 0

\* the gradient computations of the last call for the variable src with the
\* call's limiters, on material m (0: the mesh variable)
GradientEventsFor(m) ==
  {i \in EventsOf("compute_source_gradient") :
     /\ last.events[i].src = last.src
     /\ last.events[i].args.limiter = last.args.limiter
     /\ last.events[i].args.bnd_limiter = last.args.bnd_limiter
     /\ last.events[i].mat = m}

\* C19: every order-2 interpolation is preceded, in its own call, by the
\* computation of the source gradient of its own variable with the call's
\* limiter and boundary limiter (once per material for a multi-material
\* variable), and every gradient computed in a call is one of these; an
\* order-1 call computes no gradient.
C19_GradientPerVariable ==
  last.op \in InterpolateOps =>
    /\ last.order = 2 =>
         /\ \A i \in EventsOf("interpolate_mesh_var") :
              \E j \in GradientEventsFor(0) : j < i
         /\ \A i \in EventsOf("interpolate_mat_var") :
              \A m \in 1..num_materials : \E j \in GradientEventsFor(m) : j < i
         /\ \A j \in EventsOf("compute_source_gradient") :
              \E m \in 0..num_materials : j \in GradientEventsFor(m)
    /\ last.order = 1 =>
         /\ EventsOf("compute_source_gradient") = {}
         /\ EventsOf("cache_multimat_gradient_stencils") = {}

C19_Witness ==
  /\ last.op = "interpolate"
  /\ last.order = 2
  /\ last.outcome = OK
  /\ EventsOf("interpolate_mesh_var") # {}
  /\ GradientEventsFor(0) # {}
  /\ target_state_[last.trg].order = 2

\* C20: a successful interpolate call runs exactly one of the two paths:
\* interpolate_mat_var with source_weights_by_mat_ iff the variable is a
\* MULTIMATERIAL_FIELD, and otherwise interpolate_mesh_var with
\* source_weights_[K].
C20_RoutedByFieldType ==
  (last.op = "interpolate" /\ last.outcome = OK /\ get_entity[last.src] = last.kind
   /\ mesh_intersection_completed_[last.kind])
    => IF field_type[last.src] = MULTIMATERIAL_FIELD
       THEN /\ Cardinality(EventsOf("interpolate_mat_var")) = 1
            /\ EventsOf("interpolate_mesh_var") = {}
            /\ \A i \in EventsOf("interpolate_mat_var") :
                 last.events[i].w = source_weights_by_mat_
       ELSE /\ Cardinality(EventsOf("interpolate_mesh_var")) = 1
            /\ EventsOf("interpolate_mat_var") = {}
            /\ \A i \in EventsOf("interpolate_mesh_var") :
                 last.events[i].w = source_weights_[last.kind]

(***************************************************************************)
(* Properties of intersect_polys_r2d.                                      *)
(***************************************************************************)
Returned == poly_pc = "done"
Degenerate == Len(in_source_poly) = 0 \/ Len(in_target_poly) = 0

\* neither candidate center point is usable: the fan centroid fails the
\* orientation test, and the feasible set is empty or its centroid fails too
NoValidCenter(poly) ==
  /\ ~CenterPointOk(FanCentroid(poly), poly)
  /\ \/ Len(FeasibleSet(poly)) = 0
     \/ ~CenterPointOk(FeasibleCentroid(poly, 1), poly)

\* C2: with trg_convex = false, when neither the area-weighted centroid nor
\* the centroid of the feasible set passes the orientation test (or the
\* feasible set is empty), the call ends in an error and returns no moments.
C2_NoValidCenterIsAnError ==
  (Returned /\ ~Degenerate /\ ~in_trg_convex /\ NoValidCenter(in_target_poly))
    => (result.status = "error" /\ result.moments = <<>>)

\* C9: when the source or the target polygon has no vertices the call returns
\* normally a vector of zeros, of length 3 in Cartesian and 6 in cylindrical
\* axisymmetric coordinates, whatever trg_convex is.
C9_DegenerateInputReturnsZeros ==
  (Returned /\ Degenerate)
    => /\ result.status = "returned"
       /\ Len(result.moments) = (IF in_coord_sys = CylindricalAxisymmetric THEN 6 ELSE 3)
       /\ \A j \in 1..Len(result.moments) : result.moments[j] = Zero

C9_Witness ==
  /\ Returned
  /\ Len(in_source_poly) > 0
  /\ Len(in_target_poly) = 0
  /\ ~in_trg_convex
  /\ in_coord_sys = CylindricalAxisymmetric
  /\ result.moments = <<Zero, Zero, Zero, Zero, Zero, Zero>>

\* C10: in cylindrical axisymmetric coordinates every non-degenerate call
\* returns the shifted moment list, for trg_convex = false as for
\* trg_convex = true: the list has the shifted list's length, and on a convex
\* target it is the shifted list of the moments of the clipped source.
C10_CylindricalMomentsShifted ==
  (Returned /\ ~Degenerate /\ in_coord_sys = CylindricalAxisymmetric)
    => /\ Len(result.moments) = Len(shift_moments_list(ZeroMoments(R2D_NUM_MOMENTS(2))))
       /\ in_target_poly \in ConvexTargetPolys
            => result.moments =
                 shift_moments_list(
                   r2d_reduce(r2d_clip(in_source_poly,
                                       r2d_poly_faces_from_verts(in_target_poly),
                                       Len(in_target_poly)), 2))

\* the fan loop ran: the source polygon was clipped once per edge of the target
FanClipped == Returned /\ ~Degenerate /\ ~in_trg_convex /\ Len(clipped) = Len(in_target_poly)

\* a >= 0 (false for NaN)
NonNegative(a) == ~IsNaN(a) /\ a.n >= 0

\* every triangle (cen, vertex i, vertex i+1) of the polygon has non-negative
\* orientation
SeesEveryEdge(cen, poly) ==
  \A i \in 0..(Len(poly) - 1) : NonNegative(r2d_orient(cen, V(poly, i), VNext(poly, i)))

\* C24: in the non-convex path the fan centroid is tried first and used, with
\* no self-clipping, if it passes the orientation test; the centroid of the
\* feasible set is computed only if it fails; and whenever the fan clipping is
\* performed every triangle (center, vertex i, vertex i+1) of the center point
\* used has non-negative orientation.
C24_FanCenterSeesEveryEdge ==
  FanClipped =>
    /\ center.first_ok => (~center.fallback /\ center.cen = FanCentroid(in_target_poly))
    /\ center.fallback => ~center.first_ok
    /\ SeesEveryEdge(center.cen, in_target_poly)

\* the divisor of the centroid the call settled on: area_sum for the fan
\* centroid, the zeroth moment of the feasible set for the fallback
CenterDivisor ==
  IF center.fallback
  THEN r2d_reduce(FeasibleSet(in_target_poly), PolyOrder(in_coord_sys))[1]
  ELSE FanSums(in_target_poly, 1, Len(in_target_poly) - 1).area_sum

\* C29: in the non-convex path the center point used for the fan clipping
\* was obtained by a division by a non-zero quantity (area_sum, or the zeroth
\* moment of a non-empty feasible set), and is not NaN.
C29_CenterDividedByNonZero ==
  FanClipped =>
    /\ CenterDivisor # Zero
    /\ center.fallback => Len(FeasibleSet(in_target_poly)) > 0
    /\ ~IsNaN(center.cen.x) /\ ~IsNaN(center.cen.y)

\* the moments of the source polygon clipped by fan triangle t alone
TriangleMoments(t) ==
  r2d_reduce(r2d_clip(in_source_poly,
                      r2d_poly_faces_from_verts(FanTriangle(in_target_poly, center.cen, t - 1)),
                      3),
             PolyOrder(in_coord_sys))

\* the sum of the moments of the triangles order[1], order[2], ...
RECURSIVE SumOfTriangles(_, _)
SumOfTriangles(order, upto) ==
  IF upto = 0 THEN ZeroMoments(R2D_NUM_MOMENTS(PolyOrder(in_coord_sys)))
  ELSE MAdd(SumOfTriangles(order, upto - 1), TriangleMoments(order[upto]))

\* C25: in the non-convex path the returned moments are the sum over all
\* edges of the target polygon of the moments of the unclipped source polygon
\* clipped by the triangle of that edge alone, taken in either order.
C25_FanMomentsAreSumOverTriangles ==
  FanClipped =>
    LET n == Len(in_target_poly)
    IN  /\ result.moments = SumOfTriangles([t \in 1..n |-> t], n)
        /\ result.moments = SumOfTriangles([t \in 1..n |-> n + 1 - t], n)

(***************************************************************************)
(* Properties of the remap in numbers.                                     *)
(***************************************************************************)
\* the volume of the intersections with each source entity, summed over the
\* target entities
CoveredVolumeOfSource(wts, s) ==
  RSum([t \in 1..Len(wts) |->
          RSum([c \in 1..Len(wts[t]) |->
                  IF wts[t][c].entityID = s THEN wts[t][c].weights[1] ELSE Zero])])
\* the weights partition every source and every target control volume
WeightsPartition(k, dm) ==
  LET wts == NumericWeights(k, dm)
      sg == SourceVolumes[k]
      tg == TargetVolumes(dm)[k]
  IN  /\ \A t \in 1..NumEntities(tg) :
           RSum([c \in 1..Len(wts[t]) |-> wts[t][c].weights[1]]) = RectArea(tg, t)
      /\ \A s \in 1..NumEntities(sg) : CoveredVolumeOfSource(wts, s) = RectArea(sg, s)

\* the source entities that give target entity t a non-zero weight
Contributors(wts, t) == {c \in 1..Len(wts[t]) : wts[t][c].weights[1] # Zero}

\* C13: when the domains match (no mismatch is detected), the weights of the
\* intersection partition every source and target control volume and an
\* order-1 remap conserves the integral of the variable: the sum of target
\* value times target volume equals the sum of source value times source
\* volume, whatever the source values
C13_Order1ConservesIntegral ==
  \A t \in TrgNames :
    (/\ Numeric(target_state_[t])
     /\ target_state_[t].order = 1
     /\ core_mismatch[target_state_[t].kind] = "match")
    => /\ WeightsPartition(target_state_[t].kind, domain_mismatch)
       /\ TargetIntegral(target_state_[t]) = SourceIntegral(target_state_[t])

\* an order-1 remap over matching domains of a field that is not constant,
\* with a target entity fed by two source entities, conserved the integral
C13_Witness ==
  /\ last.op = "interpolate"
  /\ last.outcome = OK
  /\ last.order = 1
  /\ Numeric(target_state_[last.trg])
  /\ target_state_[last.trg].src = last.src
  /\ core_mismatch[last.kind] = "match"
  /\ WeightsPartition(last.kind, domain_mismatch)
  /\ \E i, j \in 1..Len(source_state_[last.src]) :
       source_state_[last.src][i] # source_state_[last.src][j]
  /\ \E t \in 1..Len(NumericWeights(last.kind, domain_mismatch)) :
       Cardinality(Contributors(NumericWeights(last.kind, domain_mismatch), t)) >= 2
  /\ SourceIntegral(target_state_[last.trg]) # Zero
  /\ TargetIntegral(target_state_[last.trg]) = SourceIntegral(target_state_[last.trg])

\* every value of a field is c
IsConstant(vals, c) == \A i \in 1..Len(vals) : vals[i] = c
\* every target entity has a contribution of non-zero weight
EveryTargetCovered(wts) == \A id \in 1..Len(wts) : Contributors(wts, id) # {}
\* the latest call interpolated a mesh variable at the given order
Interpolated(order) ==
  /\ last.op = "interpolate"
  /\ last.outcome = OK
  /\ last.order = order
  /\ last.src \in RemapVars
  /\ last.kind = get_entity[last.src]

Inside(tg, id, sg, s) ==
  /\ RLeq(sg.xs[Col(sg, s)], tg.xs[Col(tg, id)])
  /\ RLeq(tg.xs[Col(tg, id) + 1], sg.xs[Col(sg, s) + 1])
  /\ RLeq(sg.ys[Row(sg, s)], tg.ys[Row(tg, id)])
  /\ RLeq(tg.ys[Row(tg, id) + 1], sg.ys[Row(sg, s) + 1])

\* the source entities that target entity id of a field lies inside
EnclosingSources(rec, id) ==
  {s \in 1..NumEntities(SourceVolumes[rec.kind]) :
     Inside(TargetVolumes(domain_mismatch)[rec.kind], id,
            SourceVolumes[rec.kind], s)}
\* target entity id of a field has no weight from outside source entity s and
\* holds the value of s
TakesValueOf(rec, wts, written, id, s) ==
  /\ \A c \in Contributors(wts, id) : wts[id][c].entityID = s
  /\ written[id] = source_state_[rec.src][s]

LinearFields == {LinearField(1, 1, 0), LinearField(2, -1, 3), LinearField(-1, 3, 2)}
\* the values of f at the centroids of the target entities of kind k
ValuesOnTarget(f, k) ==
  Tuple([id \in 1..NumEntities(TargetVolumes(domain_mismatch)[k]) |->
           ValueAt(f, TargetPoints(domain_mismatch)[k][id])])

C23_RepairOnlyWhenRequestedAndNeeded ==
  last.op \in InterpolateOps =>
    /\ \A j \in EventsOf("fix_mismatch") :
         /\ do_check_mismatch_
         /\ core_mismatch[last.events[j].kind] # "match"
         /\ j > 1
         /\ last.events[j - 1].call = "has_mismatch"
         /\ last.events[j - 1].kind = last.events[j].kind
    /\ ~do_check_mismatch_ =>
         /\ EventsOf("fix_mismatch") = {}
         /\ \A i \in EventsOf("interpolate_mesh_var") \cup EventsOf("interpolate_mat_var") :
              ~target_state_[last.events[i].trg].repaired

C23_Witness ==
  /\ last.op \in {"interpolate", "interpolate_mesh_var"}
  /\ last.outcome = OK
  /\ ~do_check_mismatch_
  /\ domain_mismatch
  /\ EventsOf("interpolate_mesh_var") # {}
  /\ EventsOf("fix_mismatch") = {}
  /\ ~target_state_[last.trg].repaired

\* the positions of the calls named c made on the core driver of kind k in
\* the last public call
EventsOn(c, k) == {i \in EventsOf(c) : last.events[i].kind = k}

\* in the last public call the core driver of kind k ran one search and then
\* one mesh intersection on the candidates of that search
SearchedThenIntersected(k) ==
  /\ Cardinality(EventsOn("search", k)) = 1
  /\ Cardinality(EventsOn("intersect_meshes", k)) = 1
  /\ \A i \in EventsOn("search", k) : \A j \in EventsOn("intersect_meshes", k) :
       /\ i < j
       /\ last.events[j].w.cand = CoreSearch(k)

\* C26: a compute_interpolation_weights call that returns has run, for each
\* kind with a registered variable and for no other kind, one search followed
\* by one intersect_meshes on the candidates of that search, and one
\* intersect_materials (after the cell mesh intersection, on the cell
\* candidates) iff a multi-material field is registered; the completion
\* flags of the registered kinds are true and source_weights_[K] holds the
\* weights of the intersection.
C26_WeightsComputedOncePerRegisteredKind ==
  (last.op = "compute_interpolation_weights" /\ last.outcome = OK) =>
    /\ \A k \in Kinds :
         IF remap_kind_[k]
         THEN /\ SearchedThenIntersected(k)
              /\ search_completed_[k]
              /\ mesh_intersection_completed_[k]
              /\ source_weights_[k] = CoreIntersectMeshes(k, CoreSearch(k))
              /\ source_weights_[k] = intersection_result[k]
         ELSE \A i \in 1..Len(last.events) : last.events[i].kind # k
    /\ Cardinality(EventsOf("intersect_materials"))
         = (IF have_multi_material_fields_ THEN 1 ELSE 0)
    /\ \A j \in EventsOf("intersect_materials") :
         /\ \A i \in EventsOn("intersect_meshes", CELL) : i < j
         /\ last.events[j].w.cand = CoreSearch(CELL)
         /\ mat_intersection_completed_
         /\ source_weights_by_mat_ = last.events[j].w

C26_Witness ==
  /\ last.op = "compute_interpolation_weights"
  /\ last.outcome = OK
  /\ remap_kind_[CELL]
  /\ remap_kind_[NODE]
  /\ have_multi_material_fields_
  /\ EventsOf("intersect_materials") # {}
  /\ source_weights_[NODE] = CoreIntersectMeshes(NODE, CoreSearch(NODE))

\* C27: a completion flag is true only if its step ran to completion:
\* search_completed_[K] is never true for a kind whose search cannot return,
\* and a search or a material intersection that fails leaves its flag false.
C27_FlagOnlyAfterCompletion ==
  /\ \A k \in Kinds \ {CELL, NODE} : ~search_completed_[k]
  /\ (last.op = "search" /\ Failed(last.outcome)) => ~search_completed_[last.kind]
  /\ (last.op = "intersect_materials" /\ Failed(last.outcome)) => ~mat_intersection_completed_

\* C28: a public call for a supported kind K that has no registered variable
\* (hence no core driver) never goes through the missing driver_cell_ /
\* driver_node_.
C28_MissingDriverNeverUsed ==
  (/\ last.op \in {"search", "intersect_meshes", "intersect_materials",
                   "interpolate", "interpolate_mesh_var"}
   /\ last.kind \in {CELL, NODE}
   /\ ~remap_kind_[last.kind])
    => last.outcome # UNDEFINED

(***************************************************************************)
(* Properties of momentumapp2D.                                            *)
(***************************************************************************)
\* the command line and the job size that let the remap run
RemapAllowed ==
  /\ app.argc >= 8
  /\ app.method \in {SGH, CCH}
  /\ \A f \in 1..3 : app.formula_ok[f]
  /\ ~(app.numpe > 1 /\ app.method = SGH)

LinesOf(r) == {app.out[r][i] : i \in 1..Len(app.out[r])}

\* C30: RemapND runs only when the seven arguments are given, the method is
\* SGH or CCH, the three formulas initialise and the job is not a parallel SGH
\* one; on every other path the job prints the usage or an input-error
\* message (through rank 0), runs no remap and writes no error file; every
\* process that has returned from main has called MPI_Finalize exactly once.
C30_RemapOnlyOnValidInput ==
  \A r \in Ranks :
    /\ app.remaps[r] > 0 => RemapAllowed
    /\ ~RemapAllowed =>
         /\ app.remaps[r] = 0
         /\ app.files = {}
         /\ app.pc[r] \in {"main", "args", "validate", "serial_check", "returned"}
         /\ (r = 0 /\ app.pc[r] = "returned")
              => (USAGE \in LinesOf(r) \/ INPUT_ERROR \in LinesOf(r))
    /\ app.pc[r] = "returned" => (app.mpi_init[r] = 1 /\ app.mpi_finalize[r] = 1)
    /\ app.pc[r] # "returned" => app.mpi_finalize[r] = 0

C30_Witness ==
  /\ app # AppIdle
  /\ app.numpe = 2
  /\ app.argc = 8
  /\ app.method = SGH
  /\ \A f \in 1..3 : app.formula_ok[f]
  /\ \A r \in Ranks : app.pc[r] = "returned" /\ app.mpi_finalize[r] = 1 /\ app.remaps[r] = 0
  /\ SERIAL_ONLY \in LinesOf(0)
  /\ app.files = {}

(***************************************************************************)
(* Properties of the mismatch repair.                                      *)
(***************************************************************************)
\* the repair never exceeds its budget, and when it has returned it returned
\* normally, converged iff the error is within the tolerance, and reported the
\* residual imbalance iff it is not (and then the budget is used up)
FixupBounded ==
  fixup.pc # "idle" =>
    /\ fixup.iter <= fixup.max_fixup_iter
    /\ fixup.pc = "returned" =>
         /\ fixup.outcome = OK
         /\ fixup.converged = WithinTol(fixup)
         /\ fixup.reported = ~WithinTol(fixup)
         /\ fixup.reported => fixup.iter = fixup.max_fixup_iter
         /\ fixup.later = 0 => ENABLED FixupNextVariable

\* an iteration is made only while the error is outside the tolerance
FixupStopsWhenWithinTol ==
  fixup'.iter # fixup.iter => (~WithinTol(fixup) /\ fixup'.iter = fixup.iter + 1)

\* C21: the repair terminates: it makes at most max_fixup_iter iterations,
\* none once the relative conservation error is within conservation_tol, and
\* it returns; when the budget is exhausted it reports the residual imbalance
\* and returns normally, and the next variable can be remapped.
C21_RepairTerminates ==
  /\ []FixupBounded
  /\ [][FixupStopsWhenWithinTol]_vars
  /\ <>(fixup.pc = "returned")

C21_Witness ==
  /\ fixup.pc = "returned"
  /\ fixup.max_fixup_iter > 0
  /\ fixup.iter = fixup.max_fixup_iter
  /\ fixup.reported
  /\ ~fixup.converged
  /\ fixup.outcome = OK
  /\ fixup.later = 1


(***************************************************************************)
(* Properties of the per-entity tasks of one interpolation call.           *)
(***************************************************************************)
\* the target field of the call, computed entity after entity with the
\* gradients compute_source_gradient gives
TasksSequentialField ==
  LET vals == source_state_[tasks.src]
  IN  InterpolateAll(tasks.kind, vals,
                     IF tasks.order = 2
                     THEN LimitedGradients(tasks.kind, vals, "NOLIMITER", "BND_NOLIMITER")
                     ELSE NoGradients(vals),
                     NumericWeights(tasks.kind, domain_mismatch), tasks.order)

TasksAllDone == \A t \in DOMAIN tasks.pc : tasks.pc[t] = "done"

\* C22: during one interpolation call every slot of the target field is
\* written at most once and only by the task of its own entity, once that
\* task is done exactly once; no task changes the source state, the cached
\* weights or the gradients; and when all tasks are done the target field is
\* the one the sequential computation gives, whatever the interleaving was.
C22_InterpolationIsRaceFree ==
  /\ \A s \in DOMAIN tasks.pc :
       /\ tasks.writers[s] \subseteq {s}
       /\ tasks.writes[s] = (IF tasks.pc[s] = "done" THEN 1 ELSE 0)
       /\ tasks.pc[s] = "done" => tasks.field[s] = tasks.value[s]
  /\ source_state_ = tasks.source_before
  /\ source_weights_ = tasks.weights_before
  /\ tasks.weights = NumericWeights(tasks.kind, domain_mismatch)
  /\ TasksAllDone => tasks.field = TasksSequentialField

\* an order-2 call over mismatched domains whose tasks are all done, every
\* slot written once with a number
C22_Witness ==
  /\ TasksAllDone
  /\ tasks.order = 2
  /\ domain_mismatch
  /\ Len(tasks.field) >= 2
  /\ \A s \in DOMAIN tasks.pc : tasks.writes[s] = 1 /\ IsFinite(tasks.field[s])

====
